---- MODULE Spec2Model ----
(***************************************************************************)
(* Content-quality metrics evaluator and pass/fail gate                    *)
(* (src/src/ai_content_factory/core/metrics.py), with the metrics logger   *)
(* (core/metrics_logger.py) and the generation tasks of the web API        *)
(* (api/app.py) that call them.                                            *)
(*                                                                         *)
(* Representation.                                                         *)
(*  - A Python str is a sequence of one-character strings.                 *)
(*  - A Python float is a fixed-point number counted in thousandths        *)
(*    (70.0 is 70000, 0.85 is 850); a quotient is truncated downwards to   *)
(*    a thousandth.  Thresholds are whole multiples of a thousandth, so a  *)
(*    ">= threshold" test on the truncated value is the test on the exact  *)
(*    value.                                                               *)
(*  - A call that can raise returns [ok |-> FALSE, err |-> <exception>],   *)
(*    and [ok |-> TRUE, val |-> v] otherwise.                              *)
(*  - ContentMetrics.timestamp (the wall clock at construction) is left    *)
(*    out of the record.                                                   *)
(***************************************************************************)
EXTENDS Integers, Sequences, FiniteSets, TLC

VARIABLES
    article,            \* the Article handed to evaluate_article
    target_word_count,  \* evaluate_article's target_word_count argument
    primary_keyword,    \* evaluate_article's primary_keyword argument
    generation_time,    \* evaluate_article's generation_time argument
    collaborator,       \* how load_config() and db_manager.query() behave
    metrics,            \* the ContentMetrics record, once there is one
    gate,               \* what passes_requirements() returned
    pc,                 \* "start", "evaluated", "raised", "gated"
    calls,              \* the frames of the calls that run side by side
    lookup,             \* a call of db_manager.query: its arguments and outcome
    report,             \* what print_metrics_report printed, once it ran
    json_log,           \* the file metrics_history.json of the log directory
    csv_log,            \* the rows of metrics_history.csv after the header
    loggers,            \* the frames of the calls of MetricsLogger.log_metrics
    clock,              \* int(time.time() * 1000) of the web API's host
    generation_status,  \* the web API's dict generation_status
    tasks,              \* the background tasks the web API has added
    content_library,    \* the content items of outputs/content_library.json
    counted             \* a call of _count_syllables: its word and what it returned

\* the log directory and the calls that write to it
logger_vars == <<json_log, csv_log, loggers>>

\* the state of the web API
api_vars == <<clock, generation_status, tasks, content_library>>

vars == <<article, target_word_count, primary_keyword, generation_time,
          collaborator, metrics, gate, pc, calls, lookup, report, logger_vars, api_vars,
          counted>>

(***************************************************************************)
(* Generic helpers                                                         *)
(***************************************************************************)
Milli(x) == x * 1000

Min(a, b) == IF a <= b THEN a ELSE b
Max(a, b) == IF a >= b THEN a ELSE b
Abs(a) == IF a < 0 THEN -a ELSE a

Ok(v) == [ok |-> TRUE, val |-> v]
Raise(e) == [ok |-> FALSE, err |-> e]

Chars(s) == [i \in 1..Len(s) |-> SubSeq(s, i, i)]

RECURSIVE SumRange(_, _, _)
SumRange(s, lo, hi) ==
    IF lo > hi THEN 0
    ELSE IF lo = hi THEN s[lo]
    ELSE LET mid == (lo + hi) \div 2
         IN  SumRange(s, lo, mid) + SumRange(s, mid + 1, hi)

\* sum(s)
SumSeq(s) == SumRange(s, 1, Len(s))

RECURSIVE Pow10(_)
Pow10(n) == IF n = 0 THEN 1 ELSE 10 * Pow10(n - 1)

\* f"{x:.<digits>f}": x (in thousandths) rounded to `digits` decimals, half to
\* even, as a whole number of 10^-digits (69900 at one decimal is 699, "69.9").
Format(x, digits) ==
    LET step == Pow10(3 - digits)
        q == x \div step
        r == x % step
    IN  IF 2 * r > step \/ (2 * r = step /\ q % 2 = 1) THEN q + 1 ELSE q

(***************************************************************************)
(* ContentMetrics.passes_requirements                                      *)
(***************************************************************************)
Failure(label, shown, limit) == [label |-> label, shown |-> shown, limit |-> limit]

FailuresTimeExclusive(m) ==
    (IF m.content_quality_score < Milli(70)
        THEN <<Failure("Quality score", Format(m.content_quality_score, 1), "< 70")>>
        ELSE <<>>)
    \o (IF m.brand_voice_similarity < 800
        THEN <<Failure("Brand voice", Format(m.brand_voice_similarity, 2), "< 0.80")>>
        ELSE <<>>)
    \o (IF ~(Milli(1) <= m.keyword_density /\ m.keyword_density <= Milli(2))
        THEN <<Failure("Keyword density", Format(m.keyword_density, 2), "% not in 1-2% range")>>
        ELSE <<>>)
    \o (IF m.readability_score < Milli(60)
        THEN <<Failure("Readability", Format(m.readability_score, 1), "< 60")>>
        ELSE <<>>)
    \o (IF m.word_count_accuracy < Milli(90)
        THEN <<Failure("Word count accuracy", Format(m.word_count_accuracy, 1), "% < 90%")>>
        ELSE <<>>)
    \o (IF m.generation_time >= Milli(300)
        THEN <<Failure("Generation time", Format(m.generation_time, 1), "s > 300s")>>
        ELSE <<>>)
    \o (IF m.heading_structure_score < Milli(1)
        THEN <<Failure("Heading structure", Format(m.heading_structure_score, 1), "< 1.0")>>
        ELSE <<>>)
    \o (IF m.seo_requirements_score < Milli(1)
        THEN <<Failure("SEO requirements", Format(m.seo_requirements_score, 1), "< 1.0")>>
        ELSE <<>>)

FailuresStrictQuality(m) ==
    (IF m.content_quality_score <= Milli(70)
        THEN <<Failure("Quality score", Format(m.content_quality_score, 1), "< 70")>>
        ELSE <<>>)
    \o (IF m.brand_voice_similarity < 800
        THEN <<Failure("Brand voice", Format(m.brand_voice_similarity, 2), "< 0.80")>>
        ELSE <<>>)
    \o (IF ~(Milli(1) <= m.keyword_density /\ m.keyword_density <= Milli(2))
        THEN <<Failure("Keyword density", Format(m.keyword_density, 2), "% not in 1-2% range")>>
        ELSE <<>>)
    \o (IF m.readability_score < Milli(60)
        THEN <<Failure("Readability", Format(m.readability_score, 1), "< 60")>>
        ELSE <<>>)
    \o (IF m.word_count_accuracy < Milli(90)
        THEN <<Failure("Word count accuracy", Format(m.word_count_accuracy, 1), "% < 90%")>>
        ELSE <<>>)
    \o (IF m.generation_time > Milli(300)
        THEN <<Failure("Generation time", Format(m.generation_time, 1), "s > 300s")>>
        ELSE <<>>)
    \o (IF m.heading_structure_score < Milli(1)
        THEN <<Failure("Heading structure", Format(m.heading_structure_score, 1), "< 1.0")>>
        ELSE <<>>)
    \o (IF m.seo_requirements_score < Milli(1)
        THEN <<Failure("SEO requirements", Format(m.seo_requirements_score, 1), "< 1.0")>>
        ELSE <<>>)

FailuresReadabilityFirst(m) ==
    (IF m.readability_score < Milli(60)
        THEN <<Failure("Readability", Format(m.readability_score, 1), "< 60")>>
        ELSE <<>>)
    \o (IF m.content_quality_score < Milli(70)
        THEN <<Failure("Quality score", Format(m.content_quality_score, 1), "< 70")>>
        ELSE <<>>)
    \o (IF m.brand_voice_similarity < 800
        THEN <<Failure("Brand voice", Format(m.brand_voice_similarity, 2), "< 0.80")>>
        ELSE <<>>)
    \o (IF ~(Milli(1) <= m.keyword_density /\ m.keyword_density <= Milli(2))
        THEN <<Failure("Keyword density", Format(m.keyword_density, 2), "% not in 1-2% range")>>
        ELSE <<>>)
    \o (IF m.word_count_accuracy < Milli(90)
        THEN <<Failure("Word count accuracy", Format(m.word_count_accuracy, 1), "% < 90%")>>
        ELSE <<>>)
    \o (IF m.generation_time > Milli(300)
        THEN <<Failure("Generation time", Format(m.generation_time, 1), "s > 300s")>>
        ELSE <<>>)
    \o (IF m.heading_structure_score < Milli(1)
        THEN <<Failure("Heading structure", Format(m.heading_structure_score, 1), "< 1.0")>>
        ELSE <<>>)
    \o (IF m.seo_requirements_score < Milli(1)
        THEN <<Failure("SEO requirements", Format(m.seo_requirements_score, 1), "< 1.0")>>
        ELSE <<>>)

\* The failures list built by the eight tests, in source order.
Failures(m) ==
    (IF m.content_quality_score < Milli(70)
        THEN <<Failure("Quality score", Format(m.content_quality_score, 1), "< 70")>>
        ELSE <<>>)
    \o (IF m.brand_voice_similarity < 800
        THEN <<Failure("Brand voice", Format(m.brand_voice_similarity, 2), "< 0.80")>>
        ELSE <<>>)
    \o (IF ~(Milli(1) <= m.keyword_density /\ m.keyword_density <= Milli(2))
        THEN <<Failure("Keyword density", Format(m.keyword_density, 2), "% not in 1-2% range")>>
        ELSE <<>>)
    \o (IF m.readability_score < Milli(60)
        THEN <<Failure("Readability", Format(m.readability_score, 1), "< 60")>>
        ELSE <<>>)
    \o (IF m.word_count_accuracy < Milli(90)
        THEN <<Failure("Word count accuracy", Format(m.word_count_accuracy, 1), "% < 90%")>>
        ELSE <<>>)
    \o (IF m.generation_time > Milli(300)
        THEN <<Failure("Generation time", Format(m.generation_time, 1), "s > 300s")>>
        ELSE <<>>)
    \o (IF m.heading_structure_score < Milli(1)
        THEN <<Failure("Heading structure", Format(m.heading_structure_score, 1), "< 1.0")>>
        ELSE <<>>)
    \o (IF m.seo_requirements_score < Milli(1)
        THEN <<Failure("SEO requirements", Format(m.seo_requirements_score, 1), "< 1.0")>>
        ELSE <<>>)

\* return len(failures) == 0, failures
passes_requirements(m) == <<Len(Failures(m)) = 0, Failures(m)>>

PassesRequirements ==
    /\ pc = "evaluated"
    /\ gate' = passes_requirements(metrics)
    /\ pc' = "gated"
    /\ UNCHANGED <<article, target_word_count, primary_keyword, generation_time,
                   collaborator, metrics, calls, lookup,
                   report, logger_vars, api_vars, counted>>

(***************************************************************************)
(* Records built directly by the dataclass constructor, every score inside *)
(* the range its field comment documents, below, on and above each         *)
(* threshold.                                                              *)
(***************************************************************************)
NoArticle == [title |-> <<>>, meta_description |-> <<>>, introduction |-> <<>>,
              sections |-> <<>>, conclusion |-> <<>>, call_to_action |-> <<>>,
              total_word_count |-> 0, markdown_content |-> <<>>]

NoGate == <<FALSE, <<>>>>

\* no call runs side by side with the one the other variables describe
NoCalls == <<>>

\* db_manager.query is not called on its own
NoLookup == [query_text |-> <<>>, k |-> 0, outcome |-> <<>>]

\* print_metrics_report has not run
NoReport == <<>>

\* the log directory right after MetricsLogger(): no JSON history, a CSV
\* file with its header only
NoFile == [exists |-> FALSE, valid |-> FALSE, history |-> <<>>]

\* the web API right after start-up
NoTasks == <<>>

\* _count_syllables is not called on its own
NoCount == [word |-> <<>>, at |-> "idle", count |-> 0]

\* only the evaluator and the gate are at work
OnlyEvaluator ==
    /\ counted = NoCount
    /\ report = NoReport
    /\ json_log = NoFile
    /\ csv_log = <<>>
    /\ loggers = <<>>
    /\ clock = 0
    /\ generation_status = <<>>
    /\ tasks = NoTasks
    /\ content_library = <<>>

EmptyDetails == [actual_word_count |-> 0, target_word_count |-> 0,
                 keyword_occurrences |-> 0, heading_hierarchy_issues |-> <<>>,
                 seo_checklist |-> <<>>]

GateRecords ==
    [content_quality_score   : {69900, 69960, 70000, 85300},
     brand_voice_similarity  : {0, 800, 850},
     keyword_density         : {0, 999, 1000, 2000, 2001},
     readability_score       : {59940, 60000, 72400},
     word_count_accuracy     : {89900, 90000, 100000},
     generation_time         : {45000, 300000, 300100},
     heading_structure_score : {800, 1000},
     seo_requirements_score  : {833, 1000},
     details                 : {EmptyDetails}]

InitGate ==
    /\ article = NoArticle
    /\ target_word_count = 0
    /\ primary_keyword = <<>>
    /\ generation_time = 0
    /\ collaborator = [config |-> "ok", query |-> "empty"]
    /\ metrics \in GateRecords
    /\ gate = NoGate
    /\ pc = "evaluated"
    /\ calls = NoCalls
    /\ lookup = NoLookup
    /\ OnlyEvaluator

NextGate == PassesRequirements

SpecGate == InitGate /\ [][NextGate]_vars

(***************************************************************************)
(* Claims about the gate, checked under SpecGate                           *)
(***************************************************************************)
AllEightHold(m) ==
    /\ m.content_quality_score >= Milli(70)
    /\ m.brand_voice_similarity >= 800
    /\ Milli(1) <= m.keyword_density
    /\ m.keyword_density <= Milli(2)
    /\ m.readability_score >= Milli(60)
    /\ m.word_count_accuracy >= Milli(90)
    /\ m.generation_time <= Milli(300)
    /\ m.heading_structure_score = Milli(1)
    /\ m.seo_requirements_score = Milli(1)

C1_WitnessFailing ==
    /\ pc = "gated"
    /\ ~gate[1]
    /\ Len(gate[2]) = 8

OnThresholds(m) ==
    /\ m.content_quality_score = Milli(70)
    /\ m.brand_voice_similarity = 800
    /\ m.keyword_density \in {Milli(1), Milli(2)}
    /\ m.readability_score = Milli(60)
    /\ m.word_count_accuracy = Milli(90)
    /\ m.generation_time = Milli(300)
    /\ m.heading_structure_score = Milli(1)
    /\ m.seo_requirements_score = Milli(1)

MetricOrder == <<"Quality score", "Brand voice", "Keyword density", "Readability",
                 "Word count accuracy", "Generation time", "Heading structure",
                 "SEO requirements">>

OrderOf(label) == CHOOSE i \in 1..Len(MetricOrder) : MetricOrder[i] = label

\* For each metric: whether it misses its threshold, the offending value as
\* the entry prints it, and the threshold text of the entry.
Missed(m) ==
    [i \in 1..8 |->
        CASE i = 1 -> m.content_quality_score < Milli(70)
          [] i = 2 -> m.brand_voice_similarity < 800
          [] i = 3 -> m.keyword_density < Milli(1) \/ m.keyword_density > Milli(2)
          [] i = 4 -> m.readability_score < Milli(60)
          [] i = 5 -> m.word_count_accuracy < Milli(90)
          [] i = 6 -> m.generation_time > Milli(300)
          [] i = 7 -> m.heading_structure_score < Milli(1)
          [] i = 8 -> m.seo_requirements_score < Milli(1)]

Offending(m) ==
    [i \in 1..8 |->
        CASE i = 1 -> Format(m.content_quality_score, 1)
          [] i = 2 -> Format(m.brand_voice_similarity, 2)
          [] i = 3 -> Format(m.keyword_density, 2)
          [] i = 4 -> Format(m.readability_score, 1)
          [] i = 5 -> Format(m.word_count_accuracy, 1)
          [] i = 6 -> Format(m.generation_time, 1)
          [] i = 7 -> Format(m.heading_structure_score, 1)
          [] i = 8 -> Format(m.seo_requirements_score, 1)]

Limit == <<"< 70", "< 0.80", "% not in 1-2% range", "< 60", "% < 90%",
           "s > 300s", "< 1.0", "< 1.0">>

\* C3: the failure list has exactly one entry per failed threshold, each
\* entry names the offending value and the threshold it missed, entries come
\* in the fixed order quality .. SEO, and quality 69.9 with all else passing
\* yields (False, [one entry mentioning "69.9" and "70"]).
C3_OneEntryPerFailure ==
    pc = "gated" =>
        LET f == gate[2] IN
        /\ Len(f) = Cardinality({i \in 1..8 : Missed(metrics)[i]})
        /\ Len(f) \in 0..8
        /\ {OrderOf(f[k].label) : k \in 1..Len(f)} = {i \in 1..8 : Missed(metrics)[i]}
        /\ \A k \in 1..Len(f) :
              /\ f[k].shown = Offending(metrics)[OrderOf(f[k].label)]
              /\ f[k].limit = Limit[OrderOf(f[k].label)]
              /\ k > 1 => OrderOf(f[k - 1].label) < OrderOf(f[k].label)
        /\ (metrics.content_quality_score = 69900
              /\ Cardinality({i \in 1..8 : Missed(metrics)[i]}) = 1)
            => gate = <<FALSE, <<Failure("Quality score", 699, "< 70")>>>>

C3_Witness ==
    /\ pc = "gated"
    /\ metrics.content_quality_score = 69900
    /\ gate = <<FALSE, <<Failure("Quality score", 699, "< 70")>>>>

C3_WitnessSeveral ==
    /\ pc = "gated"
    /\ Len(gate[2]) = 3
    /\ gate[2][1].label = "Brand voice"
    /\ gate[2][3].label = "SEO requirements"

(***************************************************************************)
(* Python str and re primitives the evaluator uses                         *)
(***************************************************************************)
Whitespace == {" ", "\n", "\t"}
Terminators == {".", "!", "?"}
Vowels == {"a", "e", "i", "o", "u", "y"}

\* The backtick character, which a TLA+ string literal cannot hold.
Backtick == "BACKTICK"

UpperLetters == Chars("ABCDEFGHIJKLMNOPQRSTUVWXYZ")
LowerLetters == Chars("abcdefghijklmnopqrstuvwxyz")

IsUpper(c) == \E i \in DOMAIN UpperLetters : UpperLetters[i] = c
IsLowerLetter(c) == \E i \in DOMAIN LowerLetters : LowerLetters[i] = c

LowerChar(c) ==
    IF IsUpper(c)
    THEN LowerLetters[CHOOSE i \in DOMAIN UpperLetters : UpperLetters[i] = c]
    ELSE c

\* str.lower()
Lower(s) == [i \in 1..Len(s) |-> LowerChar(s[i])]

\* len(s) of n copies of c
Rep(c, n) == [i \in 1..n |-> c]

\* sub in text
Contains(text, sub) ==
    \E i \in 1..(Len(text) - Len(sub) + 1) : SubSeq(text, i, i + Len(sub) - 1) = sub

Indices(text) == [i \in 1..Len(text) |-> i]

RECURSIVE RunLen(_, _, _)
\* how many characters of `set` stand in a row from position i on
RunLen(text, i, set) ==
    IF i > Len(text) \/ text[i] \notin set THEN 0 ELSE 1 + RunLen(text, i + 1, set)

RECURSIVE RunLenBack(_, _, _)
\* how many characters of `set` stand in a row up to and including position i
RunLenBack(text, i, set) ==
    IF i < 1 \/ text[i] \notin set THEN 0 ELSE 1 + RunLenBack(text, i - 1, set)

\* the first position >= i holding c, 0 when there is none
FirstIndex(text, c, i) ==
    IF \E j \in i..Len(text) : text[j] = c
    THEN CHOOSE j \in i..Len(text) : text[j] = c /\ \A m \in i..(j - 1) : text[m] # c
    ELSE 0

RECURSIVE Greedy(_, _, _)
\* A regex or str scan over the candidate matches [from, to], sorted by from:
\* a match is taken when it starts at or after `free`, the position after the
\* match taken last; matches never overlap.
Greedy(cands, k, free) ==
    IF k > Len(cands) THEN <<>>
    ELSE IF cands[k].from >= free
         THEN <<cands[k]>> \o Greedy(cands, k + 1, cands[k].to + 1)
         ELSE Greedy(cands, k + 1, free)

\* text.count(sub): non-overlapping occurrences, leftmost first
\* the stretches of n characters that start at the positions `at`
Spans(at, n) == [k \in 1..Len(at) |-> [from |-> at[k], to |-> at[k] + n - 1]]

StrCount(text, sub) ==
    IF sub = <<>> THEN Len(text) + 1
    ELSE Len(Greedy(Spans(SelectSeq(Indices(text),
                                    LAMBDA i : /\ i + Len(sub) - 1 <= Len(text)
                                               /\ SubSeq(text, i, i + Len(sub) - 1) = sub),
                          Len(sub)),
                    1, 1))

\* s.strip()
Strip(s) ==
    SubSeq(s, 1 + RunLen(s, 1, Whitespace), Len(s) - RunLenBack(s, Len(s), Whitespace))

\* the maximal runs of characters outside seps, in text order
Slices(text, starts, ends) == [k \in 1..Len(starts) |-> SubSeq(text, starts[k], ends[k])]

Runs(text, seps) ==
    Slices(text,
           SelectSeq(Indices(text),
                     LAMBDA i : text[i] \notin seps /\ (i = 1 \/ text[i - 1] \in seps)),
           SelectSeq(Indices(text),
                     LAMBDA i : text[i] \notin seps /\ (i = Len(text) \/ text[i + 1] \in seps)))

\* text.split(): the maximal runs of non-whitespace
Words(text) == Runs(text, Whitespace)

\* [s.strip() for s in re.split(r'[.!?]+', text) if s.strip()]
StripAll(pieces) == [i \in 1..Len(pieces) |-> Strip(pieces[i])]

Sentences(text) ==
    StripAll(SelectSeq(Runs(text, Terminators), LAMBDA s : Strip(s) # <<>>))

\* text.split('\n\n'): a pair of newlines separates when an even number of
\* newlines stands directly before it (the scan takes pairs left to right)
\* the pieces of text between the two-character separators at `seps`
SplitAt(text, seps) ==
    [k \in 1..(Len(seps) + 1) |->
        SubSeq(text, IF k = 1 THEN 1 ELSE seps[k - 1] + 2,
                     IF k = Len(seps) + 1 THEN Len(text) ELSE seps[k] - 1)]

SplitBlank(text) ==
    SplitAt(text,
            SelectSeq(Indices(text),
                      LAMBDA i : /\ i < Len(text)
                                 /\ text[i] = "\n"
                                 /\ text[i + 1] = "\n"
                                 /\ RunLenBack(text, i - 1, {"\n"}) % 2 = 0))

\* [p.strip() for p in text.split('\n\n') if p.strip() and not p.startswith('#')]
Paragraphs(text) ==
    StripAll(SelectSeq(SplitBlank(text),
                       LAMBDA p : Strip(p) # <<>> /\ ~(Len(p) > 0 /\ p[1] = "#")))

RECURSIVE ISqrtBetween(_, _, _)
ISqrtBetween(n, lo, hi) ==
    IF lo >= hi THEN lo
    ELSE LET mid == (lo + hi + 1) \div 2
         IN  IF mid * mid <= n THEN ISqrtBetween(n, mid, hi) ELSE ISqrtBetween(n, lo, mid - 1)

\* floor of the square root
ISqrt(n) == ISqrtBetween(n, 0, Min(n, 46340))

\* a / b on floats, in the fixed-point unit the caller scaled a to
Div(a, b) ==
    IF b = 0 THEN Raise("ZeroDivisionError")
    ELSE Ok(IF b < 0 THEN (-a) \div (-b) ELSE a \div b)

(***************************************************************************)
(* ContentMetricsEvaluator: the sub-scores                                 *)
(***************************************************************************)
B2I(b) == IF b THEN 1 ELSE 0

\* n^2 times the variance of the lengths
SpreadOf(lengths) ==
    Len(lengths) * SumSeq([i \in 1..Len(lengths) |-> lengths[i] * lengths[i]])
        - SumSeq(lengths) * SumSeq(lengths)

\* (np.std(lengths) / 5) * 20 in thousandths, from n and n^2 times the variance
VarietyTimesFour(n, v) ==
    IF n <= 1 THEN 0
    ELSE IF v >= 25 * n * n THEN Milli(20)
    ELSE (ISqrt(10000 * v) * 40) \div n

StructureScoreInclusive(art) ==
    (B2I(Len(art.introduction) >= 50) + B2I(Len(art.sections) >= 2)
        + B2I(Len(art.conclusion) >= 50) + B2I(Len(art.call_to_action) >= 20)) * Milli(5)

\* structure completeness
StructureScore(art) ==
    (B2I(Len(art.introduction) > 50) + B2I(Len(art.sections) >= 2)
        + B2I(Len(art.conclusion) > 50) + B2I(Len(art.call_to_action) > 20)) * Milli(5)

\* min(20, (avg_section_length / 200) * 20) of a computed average
CapDepth(avg_section_length) ==
    IF ~avg_section_length.ok THEN avg_section_length
    ELSE Ok(Min(Milli(20), avg_section_length.val))

\* content depth
DepthScore(art) ==
    IF Len(art.sections) > 0
    THEN CapDepth(Div(SumSeq([i \in 1..Len(art.sections) |-> art.sections[i].word_count])
                          * 100,
                      Len(art.sections)))
    ELSE Ok(0)

\* sentence variety
VarietyScore(sentence_lengths) ==
    IF Len(sentence_lengths) > 0
    THEN Min(Milli(20), VarietyTimesFour(Len(sentence_lengths), SpreadOf(sentence_lengths)))
    ELSE 0

\* max(0, 20 - abs(avg_para_length - 100) / 10) of a computed quotient
FloorPenalty(penalty) == IF ~penalty.ok THEN penalty ELSE Ok(Max(0, penalty.val))

ParagraphScoreExclusive(np, para_words) ==
    IF np = 0 THEN Ok(0)
    ELSE IF 50 * np < para_words /\ para_words < 150 * np THEN Ok(Milli(20))
    ELSE FloorPenalty(Div(Milli(20) * np - 100 * Abs(para_words - 100 * np), np))

\* paragraph structure, from the number of paragraphs and the words in them
ParagraphScore(np, para_words) ==
    IF np = 0 THEN Ok(0)
    ELSE IF 50 * np <= para_words /\ para_words <= 150 * np THEN Ok(Milli(20))
    ELSE FloorPenalty(Div(Milli(20) * np - 100 * Abs(para_words - 100 * np), np))

\* grammar and punctuation
GrammarScore(text, sentences) ==
    (B2I(Cardinality({i \in 1..Min(10, Len(sentences)) : IsUpper(sentences[i][1])}) >= 8)
        + B2I(10 * Cardinality({i \in 1..Len(text) : text[i] \in Terminators})
                  > 8 * Len(sentences))
        + B2I(~Contains(text, <<" ", " ">>))) * 6670

TotalScoreUnclamped(structure_score, depth_score, variety_score, para_score, grammar_score) ==
    IF ~depth_score.ok THEN depth_score
    ELSE IF ~para_score.ok THEN para_score
    ELSE Ok(structure_score + depth_score.val + variety_score + para_score.val
                + grammar_score)

\* score after the five parts were added, min(100, score)
TotalScore(structure_score, depth_score, variety_score, para_score, grammar_score) ==
    IF ~depth_score.ok THEN depth_score
    ELSE IF ~para_score.ok THEN para_score
    ELSE Ok(Min(Milli(100),
                structure_score + depth_score.val + variety_score + para_score.val
                    + grammar_score))

WordsIn(pieces) == [i \in 1..Len(pieces) |-> Len(Words(pieces[i]))]

QualityOf(art, sentences, paragraphs) ==
    TotalScore(StructureScore(art),
               DepthScore(art),
               VarietyScore(WordsIn(sentences)),
               ParagraphScore(Len(paragraphs), SumSeq(WordsIn(paragraphs))),
               GrammarScore(art.markdown_content, sentences))

_calculate_quality_score(art) ==
    QualityOf(art, Sentences(art.markdown_content), Paragraphs(art.markdown_content))

\* VectorStoreHybrid.query(collection_name, query_text, k)
query(collab, query_text, k) ==
    IF collab.listing = "raises" THEN Raise("Exception")
    ELSE IF collab.collection = "absent" THEN Ok(<<>>)
    ELSE IF Strip(query_text) = <<>> THEN Ok(<<>>)
    ELSE IF k <= 0 THEN Raise("ValueError")
    ELSE IF collab.search = "raises" THEN Ok(<<>>)
    ELSE Ok(SubSeq(collab.neighbours, 1, Min(k, Len(collab.neighbours))))

RECURSIVE JoinRange(_, _, _, _)
JoinRange(parts, sep, lo, hi) ==
    IF lo > hi THEN <<>>
    ELSE IF lo = hi THEN parts[lo]
    ELSE LET mid == (lo + hi) \div 2
         IN  JoinRange(parts, sep, lo, mid) \o sep \o JoinRange(parts, sep, mid + 1, hi)

\* ' '.join(ws)
JoinWords(ws) == JoinRange(ws, <<" ">>, 1, Len(ws))

\* ' '.join(words[:500])
Excerpt(words) == JoinWords(SubSeq(words, 1, Min(500, Len(words))))

\* the similarity read off the result of the query
SimilarityOf(results) ==
    IF ~results.ok THEN Ok(0)
    ELSE IF results.val = <<>> THEN Ok(0)
    ELSE Ok(850)

BrandVoicePropagates(art, collab) ==
    IF collab.config = "raises" THEN Raise("Exception")
    ELSE LET results == query(collab, Excerpt(Words(art.markdown_content)), 5)
         IN  IF ~results.ok THEN results ELSE SimilarityOf(results)

_calculate_brand_voice_similarity(art, collab) ==
    IF collab.config = "raises" THEN Ok(0)
    ELSE SimilarityOf(query(collab, Excerpt(Words(art.markdown_content)), 5))

CountKeywordCaseSensitive(art, keyword) == StrCount(art.markdown_content, keyword)

_count_keyword_occurrences(art, keyword) ==
    StrCount(Lower(art.markdown_content), Lower(keyword))

KeywordDensityUnguarded(art, keyword) ==
    Div(StrCount(Lower(art.markdown_content), Lower(keyword)) * Milli(100),
        art.total_word_count)

KeywordDensityCaseSensitive(art, keyword) ==
    IF art.total_word_count = 0 THEN Ok(0)
    ELSE Div(StrCount(art.markdown_content, keyword) * Milli(100), art.total_word_count)

KeywordDensityOfMarkdownWords(art, keyword) ==
    IF Len(Words(art.markdown_content)) = 0 THEN Ok(0)
    ELSE Div(StrCount(Lower(art.markdown_content), Lower(keyword)) * Milli(100),
             Len(Words(art.markdown_content)))

_calculate_keyword_density(art, keyword) ==
    LET text == Lower(art.markdown_content)
        keyword_lower == Lower(keyword)
        count == StrCount(text, keyword_lower)
        total_words == art.total_word_count
    IN  IF total_words = 0 THEN Ok(0)
        ELSE Div(count * Milli(100), total_words)

\* the characters of text at the positions kept
Pick(text, kept) == [k \in 1..Len(kept) |-> text[kept[k]]]

\* position i is a '#' of a run that ends at e, or whitespace of a run that
\* starts at s: whether the substitution drops it
DroppedMark(text, i, e) ==
    e < Len(text) /\ text[e + 1] \in Whitespace /\ e - i + 1 <= 6

DroppedSpace(text, s) == s > 1 /\ text[s - 1] = "#"

\* re.sub(r'#{1,6}\s+', '', text): of a run of '#' that whitespace follows,
\* the last six at most go, and the whitespace after them
DropHeadingMarks(text) ==
    Pick(text,
         SelectSeq(Indices(text),
                   LAMBDA i :
                       ~(IF text[i] = "#"
                         THEN DroppedMark(text, i, i + RunLen(text, i, {"#"}) - 1)
                         ELSE /\ text[i] \in Whitespace
                              /\ DroppedSpace(text, i - RunLenBack(text, i - 1, Whitespace)))))

NoLink == [ok |-> FALSE, from |-> 0, close |-> 0, to |-> 0]

\* the link that opens at i, with its ']' at close and its ')' at last
LinkClosed(i, close, last) ==
    IF last >= close + 3
    THEN [ok |-> TRUE, from |-> i, close |-> close, to |-> last]
    ELSE NoLink

LinkText(text, i, close) ==
    IF close >= i + 2 /\ close + 1 <= Len(text) /\ text[close + 1] = "("
    THEN LinkClosed(i, close, FirstIndex(text, ")", close + 2))
    ELSE NoLink

LinkAt(text, i) ==
    IF text[i] = "[" THEN LinkText(text, i, FirstIndex(text, "]", i + 1)) ELSE NoLink

\* text without the brackets and targets of the links taken
DropLinks(text, links) ==
    Pick(text,
         SelectSeq(Indices(text),
                   LAMBDA i : ~\E k \in 1..Len(links) :
                                  \/ i = links[k].from
                                  \/ (links[k].close <= i /\ i <= links[k].to)))

\* re.sub(r'\[([^\]]+)\]\([^\)]+\)', r'\1', text)
Unlink(text) ==
    DropLinks(text,
              Greedy(SelectSeq([i \in 1..Len(text) |-> LinkAt(text, i)], LAMBDA c : c.ok),
                     1, 1))

\* re.sub of the emphasis markers (asterisk, underscore, backtick) by nothing
DropEmphasis(text) == SelectSeq(text, LAMBDA c : c \notin {"*", "_", Backtick})

RECURSIVE VowelGroups(_, _, _)
VowelGroups(word, i, previous_was_vowel) ==
    IF i > Len(word) THEN 0
    ELSE LET is_vowel == word[i] \in Vowels
         IN  B2I(is_vowel /\ ~previous_was_vowel) + VowelGroups(word, i + 1, is_vowel)

SyllablesNoFloor(word) ==
    IF Len(word) = 0 THEN 0
    ELSE VowelGroups(word, 1, FALSE) - B2I(word[Len(word)] = "e")

\* the count for a word already lower-cased, stripped and reduced to letters
Syllables(word) ==
    IF Len(word) = 0 THEN 0
    ELSE Max(1, VowelGroups(word, 1, FALSE) - B2I(word[Len(word)] = "e"))

_count_syllables(w) == Syllables(SelectSeq(Strip(Lower(w)), IsLowerLetter))

ClampScoreBelowOnly(score) ==
    IF ~score.ok THEN score ELSE Ok(Max(0, score.val))

\* max(0, min(100, score))
ClampScore(score) ==
    IF ~score.ok THEN score ELSE Ok(Max(0, Min(Milli(100), score.val)))

\* 206.835 - 1.015 * (words / sentences) - 84.6 * (syllables / words)
FleschReadingEase(total_sentences, total_words, total_syllables) ==
    IF total_sentences = 0 THEN Ok(0)
    ELSE IF total_words = 0 THEN Ok(0)
    ELSE ClampScore(Div(206835 * total_sentences * total_words
                            - 1015 * total_words * total_words
                            - 84600 * total_syllables * total_sentences,
                        total_sentences * total_words))

ReadabilityOf(total_sentences, words) ==
    FleschReadingEase(total_sentences, Len(words),
                      SumSeq([i \in 1..Len(words) |-> _count_syllables(words[i])]))

\* the score of the text once the markdown is removed
ReadabilityOfText(text) == ReadabilityOf(Len(Sentences(text)), Words(text))

_calculate_readability(art) ==
    ReadabilityOfText(DropEmphasis(Unlink(DropHeadingMarks(art.markdown_content))))

WordCountAccuracyUnclamped(art, target) ==
    IF target = 0 THEN Ok(Milli(100))
    ELSE Div((target - Abs(art.total_word_count - target)) * Milli(100), target)

_calculate_word_count_accuracy(art, target) ==
    IF target = 0 THEN Ok(Milli(100))
    ELSE LET actual == art.total_word_count
             accuracy == Div((target - Abs(actual - target)) * Milli(100), target)
         IN  IF ~accuracy.ok THEN accuracy ELSE Ok(Max(0, accuracy.val))

(***************************************************************************)
(* Heading hierarchy                                                       *)
(***************************************************************************)
Issue(kind, a, b) == [kind |-> kind, a |-> a, b |-> b]

\* the last position of the line that holds position i
EndOfLine(text, i) ==
    LET nl == FirstIndex(text, "\n", i + 1)
    IN  IF nl = 0 THEN Len(text) ELSE nl - 1

NoHeading == [ok |-> FALSE, from |-> 0, to |-> 0, level |-> 0, text |-> <<>>]

\* where (.+) starts when the whitespace run of length w starts at `from`:
\* \s+ takes the most of the run it can while a character other than a newline
\* follows; 0 when it can take none
BodyStart(text, from, w) ==
    IF \E k \in 1..w : from + k <= Len(text) /\ text[from + k] # "\n"
    THEN from + CHOOSE k \in 1..w :
                    /\ from + k <= Len(text) /\ text[from + k] # "\n"
                    /\ \A y \in (k + 1)..w : ~(from + y <= Len(text) /\ text[from + y] # "\n")
    ELSE 0

\* the match of h hashes at i whose text starts at body and ends at last
HeadingMatch(text, i, h, body, last) ==
    [ok |-> TRUE, from |-> i, to |-> last, level |-> h, text |-> SubSeq(text, body, last)]

HeadingBody(text, i, h, body) ==
    IF body = 0 THEN NoHeading ELSE HeadingMatch(text, i, h, body, EndOfLine(text, body))

HeadingRun(text, i, h) ==
    IF h <= 6
    THEN HeadingBody(text, i, h, BodyStart(text, i + h, RunLen(text, i + h, Whitespace)))
    ELSE NoHeading

\* the match of the pattern that starts at position i, if there is one
HeadingAt(text, i) ==
    IF text[i] = "#" /\ (i = 1 \/ text[i - 1] = "\n")
    THEN HeadingRun(text, i, RunLen(text, i, {"#"}))
    ELSE NoHeading

HeadingPairs(found) ==
    [j \in 1..Len(found) |-> [level |-> found[j].level, text |-> found[j].text]]

\* re.findall(r'^(#{1,6})\s+(.+)$', text, re.MULTILINE): (level, text) pairs
Headings(text) ==
    HeadingPairs(Greedy(SelectSeq([i \in 1..Len(text) |-> HeadingAt(text, i)],
                                  LAMBDA c : c.ok),
                        1, 1))

RECURSIVE WalkNoSeenGuard(_, _, _)
WalkNoSeenGuard(headings, i, prev_level) ==
    IF i > Len(headings) THEN <<>>
    ELSE LET level == headings[i].level
         IN  (IF level > prev_level + 1
              THEN <<Issue("Skipped heading level", prev_level, level)>>
              ELSE <<>>)
             \o WalkNoSeenGuard(headings, i + 1, level)

SkippedLevelsNoSeenGuard(headings) == WalkNoSeenGuard(headings, 1, 0)

RECURSIVE WalkKeepPrev(_, _, _)
WalkKeepPrev(headings, i, prev_level) ==
    IF i > Len(headings) THEN <<>>
    ELSE LET level == headings[i].level
             skipped == level > prev_level + 1 /\ prev_level > 0
         IN  (IF skipped
              THEN <<Issue("Skipped heading level", prev_level, level)>>
              ELSE <<>>)
             \o WalkKeepPrev(headings, i + 1, IF skipped THEN prev_level ELSE level)

SkippedLevelsKeepPrev(headings) == WalkKeepPrev(headings, 1, 0)

RECURSIVE Walk(_, _, _)
\* the for loop over headings, from the i-th on, with prev_level as it stands
Walk(headings, i, prev_level) ==
    IF i > Len(headings) THEN <<>>
    ELSE LET level == headings[i].level
         IN  (IF level > prev_level + 1 /\ prev_level > 0
              THEN <<Issue("Skipped heading level", prev_level, level)>>
              ELSE <<>>)
             \o Walk(headings, i + 1, level)

\* prev_level = 0, then the loop
SkippedLevels(headings) == Walk(headings, 1, 0)

H1IssuesOnlyMissing(h1_count) ==
    IF h1_count = 0 THEN <<Issue("Missing H1", 0, 0)>> ELSE <<>>

\* the issue about the number of H1 headings, if there is one
H1Issues(h1_count) ==
    IF h1_count = 0 THEN <<Issue("Missing H1", 0, 0)>>
    ELSE IF h1_count > 1 THEN <<Issue("Multiple H1 tags", h1_count, 0)>>
    ELSE <<>>

IssuesOfNoEarlyReturn(headings) ==
    (IF headings = <<>> THEN <<Issue("No headings found", 0, 0)>> ELSE <<>>)
        \o H1Issues(Cardinality({i \in 1..Len(headings) : headings[i].level = 1}))
        \o SkippedLevels(headings)

IssuesOf(headings) ==
    IF headings = <<>> THEN <<Issue("No headings found", 0, 0)>>
    ELSE H1Issues(Cardinality({i \in 1..Len(headings) : headings[i].level = 1}))
             \o SkippedLevels(headings)

_check_heading_hierarchy(art) == IssuesOf(Headings(art.markdown_content))

HeadingScoreNoFloor(issues) ==
    IF Len(issues) = 0 THEN Milli(1) ELSE Milli(1) - Len(issues) * 200

\* 1.0 without issues, max(0, 1.0 - len(issues) * 0.2) otherwise
HeadingScore(issues) ==
    IF Len(issues) = 0 THEN Milli(1) ELSE Max(0, Milli(1) - Len(issues) * 200)

_evaluate_heading_structure(art) == HeadingScore(_check_heading_hierarchy(art))

(***************************************************************************)
(* SEO checklist                                                           *)
(***************************************************************************)
ChecklistLengthExclusive(art, keyword_lower) ==
    [keyword_in_title           |-> Contains(Lower(art.title), keyword_lower),
     keyword_in_meta            |-> Contains(Lower(art.meta_description), keyword_lower),
     keyword_in_intro           |-> Contains(Lower(art.introduction), keyword_lower),
     keyword_in_conclusion      |-> Contains(Lower(art.conclusion), keyword_lower),
     has_meta_description       |-> Len(art.meta_description) > 0,
     meta_description_length_ok |-> 120 < Len(art.meta_description)
                                        /\ Len(art.meta_description) < 160]

\* the six checks, given the keyword in lower case
Checklist(art, keyword_lower) ==
    [keyword_in_title           |-> Contains(Lower(art.title), keyword_lower),
     keyword_in_meta            |-> Contains(Lower(art.meta_description), keyword_lower),
     keyword_in_intro           |-> Contains(Lower(art.introduction), keyword_lower),
     keyword_in_conclusion      |-> Contains(Lower(art.conclusion), keyword_lower),
     has_meta_description       |-> Len(art.meta_description) > 0,
     meta_description_length_ok |-> 120 <= Len(art.meta_description)
                                        /\ Len(art.meta_description) <= 160]

_get_seo_checklist(art, keyword) == Checklist(art, Lower(keyword))

\* passed / total of a checklist
PassedShare(checklist) ==
    IF Cardinality(DOMAIN checklist) > 0
    THEN Div(Milli(Cardinality({k \in DOMAIN checklist : checklist[k]})),
             Cardinality(DOMAIN checklist))
    ELSE Ok(0)

_evaluate_seo_requirements(art, keyword) == PassedShare(_get_seo_checklist(art, keyword))

(***************************************************************************)
(* evaluate_article                                                        *)
(***************************************************************************)
RecordStamped(quality_score, brand_voice_sim, keyword_density, readability, word_count_acc, gen_time, heading_score, seo_score, details) ==
    IF ~quality_score.ok THEN quality_score
    ELSE IF ~brand_voice_sim.ok THEN brand_voice_sim
    ELSE IF ~keyword_density.ok THEN keyword_density
    ELSE IF ~readability.ok THEN readability
    ELSE IF ~word_count_acc.ok THEN word_count_acc
    ELSE IF ~seo_score.ok THEN seo_score
    ELSE Ok([content_quality_score   |-> quality_score.val,
             brand_voice_similarity  |-> brand_voice_sim.val,
             keyword_density         |-> keyword_density.val,
             readability_score       |-> readability.val,
             word_count_accuracy     |-> word_count_acc.val,
             generation_time         |-> 0,
             heading_structure_score |-> heading_score,
             seo_requirements_score  |-> seo_score.val,
             details                 |-> details])

\* ContentMetrics(...) of the computed scores; an exception that left one of
\* the calls leaves evaluate_article
Record(quality_score, brand_voice_sim, keyword_density, readability, word_count_acc, gen_time, heading_score, seo_score, details) ==
    IF ~quality_score.ok THEN quality_score
    ELSE IF ~brand_voice_sim.ok THEN brand_voice_sim
    ELSE IF ~keyword_density.ok THEN keyword_density
    ELSE IF ~readability.ok THEN readability
    ELSE IF ~word_count_acc.ok THEN word_count_acc
    ELSE IF ~seo_score.ok THEN seo_score
    ELSE Ok([content_quality_score   |-> quality_score.val,
             brand_voice_similarity  |-> brand_voice_sim.val,
             keyword_density         |-> keyword_density.val,
             readability_score       |-> readability.val,
             word_count_accuracy     |-> word_count_acc.val,
             generation_time         |-> gen_time,
             heading_structure_score |-> heading_score,
             seo_requirements_score  |-> seo_score.val,
             details                 |-> details])

evaluate_article(art, target, keyword, gen_time, collab) ==
    Record(_calculate_quality_score(art),
           _calculate_brand_voice_similarity(art, collab),
           _calculate_keyword_density(art, keyword),
           _calculate_readability(art),
           _calculate_word_count_accuracy(art, target),
           gen_time,
           _evaluate_heading_structure(art),
           _evaluate_seo_requirements(art, keyword),
           [actual_word_count        |-> art.total_word_count,
            target_word_count        |-> target,
            keyword_occurrences      |-> _count_keyword_occurrences(art, keyword),
            heading_hierarchy_issues |-> _check_heading_hierarchy(art),
            seo_checklist            |-> _get_seo_checklist(art, keyword)])

\* what the caller holds after the call
Returns(r) ==
    IF r.ok
    THEN metrics' = r.val /\ pc' = "evaluated"
    ELSE metrics' = metrics /\ pc' = "raised"

\* One call of evaluate_article: it returns a record or an exception leaves it.
EvaluateArticle ==
    /\ pc = "start"
    /\ Returns(evaluate_article(article, target_word_count, primary_keyword,
                                generation_time, collaborator))
    /\ UNCHANGED <<article, target_word_count, primary_keyword, generation_time,
                   collaborator, gate, calls, lookup,
                   report, logger_vars, api_vars, counted>>

Next == EvaluateArticle \/ PassesRequirements

(***************************************************************************)
(* Inputs                                                                  *)
(***************************************************************************)
MaxLines == 2
MaxHeadingLines == 4
MaxCountSteps == 42

\* '\n'.join(lines): the documents of at most `most` lines taken from `lines`
JoinLines(ls) == JoinRange(ls, <<"\n">>, 1, Len(ls))

Docs(lines, most) ==
    {JoinLines(ls) : ls \in UNION {[1..n -> lines] : n \in 0..most}}

Keyword == Chars("kit")

EmptyShell == NoArticle

FullShell ==
    [title            |-> Chars("Kit guide"),
     meta_description |-> Chars("All about the kit ") \o Rep("m", 127),
     introduction     |-> Chars("The kit ") \o Rep("i", 50),
     sections         |-> [i \in 1..3 |->
                              [heading |-> Chars("Use"), level |-> 2,
                               content |-> Chars("Kit is fine."), word_count |-> 200]],
     conclusion       |-> Chars("So the KIT ") \o Rep("c", 50),
     call_to_action   |-> Rep("b", 21),
     total_word_count |-> 0,
     markdown_content |-> <<>>]

WithText(shell, text, words) ==
    [shell EXCEPT !.markdown_content = text, !.total_word_count = words]

Store(config, listing, collection, search, neighbours) ==
    [config |-> config, listing |-> listing, collection |-> collection,
     search |-> search, neighbours |-> neighbours]

GoodStore == Store("ok", "ok", "present", "ok", <<"voice-1", "voice-2">>)

Collaborators ==
    {GoodStore,
     Store("ok", "ok", "present", "ok", <<>>),
     Store("ok", "ok", "absent", "ok", <<>>),
     Store("ok", "raises", "present", "ok", <<"voice-1">>),
     Store("ok", "ok", "present", "raises", <<"voice-1">>),
     Store("raises", "ok", "present", "ok", <<"voice-1">>)}

NoMetrics ==
    [content_quality_score |-> 0, brand_voice_similarity |-> 0, keyword_density |-> 0,
     readability_score |-> 0, word_count_accuracy |-> 0, generation_time |-> 0,
     heading_structure_score |-> 0, seo_requirements_score |-> 0,
     details |-> EmptyDetails]

Fresh ==
    /\ metrics = NoMetrics
    /\ gate = NoGate
    /\ pc = "start"
    /\ calls = NoCalls
    /\ lookup = NoLookup
    /\ OnlyEvaluator

\* Degenerate and ordinary documents, every behaviour of the collaborators.
SpecLines == {Chars(""), Chars("..."), Chars("  "), Chars("# Kit"),
              Chars("Kit is fine. the kit!")}

Init ==
    /\ \E shell \in {EmptyShell, FullShell}, text \in Docs(SpecLines, MaxLines) :
          \E words \in {0, Len(Words(text))} : article = WithText(shell, text, words)
    /\ target_word_count \in {0, 10}
    /\ primary_keyword = Keyword
    /\ generation_time = Milli(45)
    /\ collaborator \in Collaborators
    /\ Fresh

Spec == Init /\ [][Next]_vars

\* Documents that hold the keyword in either case, word counts that differ
\* from the document's own.
DensityLines == {Chars(""), Chars("# Kit"), Chars("Kit is fine. the kit!"),
                 Chars("kitkit KIT")}

InitDensity ==
    /\ \E text \in Docs(DensityLines, MaxLines) :
          \E words \in {0, Len(Words(text)), 100} :
              article = WithText(EmptyShell, text, words)
    /\ target_word_count = 100
    /\ primary_keyword \in {Chars("kit"), Chars("KIT"), Chars("fine")}
    /\ generation_time = Milli(45)
    /\ collaborator = GoodStore
    /\ Fresh

SpecDensity == InitDensity /\ [][Next]_vars

\* Actual and target word counts in steps of 50, and two negative targets.
WordCounts == {50 * k : k \in 0..MaxCountSteps}

InitWordCount ==
    /\ \E words \in WordCounts : article = WithText(EmptyShell, Chars("Kit."), words)
    /\ target_word_count \in WordCounts \cup {-100, -50}
    /\ primary_keyword = Keyword
    /\ generation_time = Milli(45)
    /\ collaborator = GoodStore
    /\ Fresh

SpecWordCount == InitWordCount /\ [][Next]_vars

\* Documents made of heading lines of levels 1 to 4 and a line of text.
HeadingLines == {Chars("# T"), Chars("## A"), Chars("### B"), Chars("#### C"),
                 Chars("Skip this.")}

InitHeading ==
    /\ \E text \in Docs(HeadingLines, MaxHeadingLines) :
          article = WithText(EmptyShell, text, Len(Words(text)))
    /\ target_word_count = 10
    /\ primary_keyword = Keyword
    /\ generation_time = Milli(45)
    /\ collaborator = GoodStore
    /\ Fresh

SpecHeading == InitHeading /\ [][Next]_vars

(***************************************************************************)
(* Claims about evaluate_article                                           *)
(***************************************************************************)
Returned == pc \in {"evaluated", "gated"}

ScoreNames == {"content_quality_score", "brand_voice_similarity", "keyword_density",
               "readability_score", "word_count_accuracy", "generation_time",
               "heading_structure_score", "seo_requirements_score"}

\* Degenerate text: no sentence (so no word that is not punctuation), word
\* count 0, no sections, target 0.
Degenerate ==
    /\ Sentences(article.markdown_content) = <<>>
    /\ article.total_word_count = 0
    /\ article.sections = <<>>
    /\ target_word_count = 0

\* C4: evaluate_article never fails with a division by zero; on degenerate
\* text every sub-calculation returns its zero/neutral value (readability 0.0,
\* keyword density 0.0, word-count accuracy 100.0, SEO the fraction of the six
\* checks) and a complete record with all eight scores is returned.
C4_DegenerateTextDegrades ==
    /\ pc # "raised"
    /\ (Returned /\ Degenerate) =>
          /\ metrics.readability_score = 0
          /\ metrics.keyword_density = 0
          /\ metrics.word_count_accuracy = Milli(100)
          /\ DOMAIN metrics.details.seo_checklist # {}
          /\ Cardinality(DOMAIN metrics.details.seo_checklist) = 6
          /\ metrics.seo_requirements_score =
                Milli(Cardinality({k \in DOMAIN metrics.details.seo_checklist :
                                      metrics.details.seo_checklist[k]})) \div 6
          /\ ScoreNames \subseteq DOMAIN metrics
          /\ metrics.content_quality_score \in 0..Milli(100)

C4_Witness ==
    /\ pc = "evaluated"
    /\ Degenerate
    /\ article.markdown_content = <<>>
    /\ metrics.word_count_accuracy = Milli(100)

C4_WitnessPunctuationOnly ==
    /\ pc = "evaluated"
    /\ Degenerate
    /\ article.markdown_content = Chars("...\n  ")

NoNeighbours ==
    \/ collaborator.config = "raises"
    \/ collaborator.listing = "raises"
    \/ collaborator.collection = "absent"
    \/ collaborator.search = "raises"
    \/ collaborator.neighbours = <<>>

\* C5: brand-voice similarity degrades to 0.0 and never raises: when the query
\* returns no results, or loading the configuration or querying the store
\* raises, the similarity is 0.0 and evaluate_article still returns a complete
\* record; the similarity always lies in [0, 1].
C5_BrandVoiceDegrades ==
    /\ pc = "raised" => ~NoNeighbours
    /\ pc # "start" => (NoNeighbours => Returned)
    /\ Returned =>
          /\ metrics.brand_voice_similarity \in 0..Milli(1)
          /\ NoNeighbours => metrics.brand_voice_similarity = 0
          /\ ScoreNames \subseteq DOMAIN metrics

C5_Witness ==
    /\ pc = "evaluated"
    /\ collaborator.listing = "raises"
    /\ metrics.brand_voice_similarity = 0

C5_WitnessResults ==
    /\ pc = "evaluated"
    /\ ~NoNeighbours
    /\ metrics.brand_voice_similarity = 850

\* the places where the keyword stands in the text, letter case aside
Occurrences(text, keyword) ==
    {i \in 1..(Len(text) - Len(keyword) + 1) :
        Lower(SubSeq(text, i, i + Len(keyword) - 1)) = Lower(keyword)}

\* C6: keyword density is (case-insensitive occurrences of the keyword in
\* markdown_content / total_word_count) x 100, and 0.0 without raising when
\* total_word_count is 0, however often the keyword occurs.
C6_KeywordDensity ==
    /\ pc # "raised"
    /\ Returned =>
          LET occ == Cardinality(Occurrences(article.markdown_content, primary_keyword))
              total == article.total_word_count
          IN  metrics.keyword_density =
                  IF total = 0 THEN 0 ELSE (occ * Milli(100)) \div total

C6_Witness ==
    /\ pc = "evaluated"
    /\ article.total_word_count = 100
    /\ primary_keyword = Chars("KIT")
    /\ article.markdown_content = Chars("Kit is fine. the kit!\nkitkit KIT")
    /\ metrics.keyword_density = Milli(5)

C6_WitnessNoWords ==
    /\ pc = "evaluated"
    /\ article.total_word_count = 0
    /\ Cardinality(Occurrences(article.markdown_content, primary_keyword)) >= 3
    /\ metrics.keyword_density = 0

\* C7: word-count accuracy is max(0, (1 - |actual - target| / target) x 100)
\* for target > 0 and 100.0 for target = 0; it is the same for an overshoot
\* and the equal undershoot, never above 100 and never below 0 for
\* non-negative target and actual; 1000/1000 gives 100.0, 900/1000 gives 90.0
\* and actual >= 2 x target gives 0.
C7_WordCountAccuracy ==
    (Returned /\ target_word_count >= 0) =>
        LET actual == article.total_word_count
            target == target_word_count
            acc == metrics.word_count_accuracy
        IN  /\ target = 0 => acc = Milli(100)
            /\ target > 0 =>
                  acc = Max(0, ((target - Abs(actual - target)) * Milli(100)) \div target)
            /\ 0 <= acc /\ acc <= Milli(100)
            /\ (target > 0 /\ actual <= 2 * target) =>
                  acc = _calculate_word_count_accuracy(
                            [article EXCEPT !.total_word_count = 2 * target - actual],
                            target).val
            /\ (actual = 1000 /\ target = 1000) => acc = Milli(100)
            /\ (actual = 900 /\ target = 1000) => acc = Milli(90)
            /\ (target > 0 /\ actual >= 2 * target) => acc = 0

C7_Witness ==
    /\ pc = "evaluated"
    /\ article.total_word_count = 900
    /\ target_word_count = 1000
    /\ metrics.word_count_accuracy = Milli(90)

C7_WitnessFloor ==
    /\ pc = "evaluated"
    /\ article.total_word_count = 2100
    /\ target_word_count = 1000
    /\ metrics.word_count_accuracy = 0

\* C8: a negative target_word_count is rejected: evaluate_article fails fast
\* with a validation error instead of returning a record.
C8_NegativeTargetRejected ==
    target_word_count < 0 => ~Returned

\* C8, the value returned instead: no record carries an accuracy above 100.
C8_NoAccuracyAboveHundred ==
    Returned => metrics.word_count_accuracy <= Milli(100)

HeadingLevels ==
    LET headings == Headings(article.markdown_content)
    IN  [i \in 1..Len(headings) |-> headings[i].level]

WellNested(levels) ==
    /\ Cardinality({i \in 1..Len(levels) : levels[i] = 1}) = 1
    /\ \A i \in 2..Len(levels) : levels[i] <= levels[i - 1] + 1

\* C9: for every heading sequence with exactly one H1 in which each heading's
\* level is at most one more than the level of the heading before it,
\* check_heading_hierarchy returns no issue and evaluate_heading_structure
\* returns 1.0.
C9_WellNestedHeadingsPass ==
    (Returned /\ WellNested(HeadingLevels)) =>
        /\ metrics.details.heading_hierarchy_issues = <<>>
        /\ metrics.heading_structure_score = Milli(1)

C9_Witness ==
    /\ pc = "evaluated"
    /\ article.markdown_content = Chars("# T\n## A\n### B")
    /\ HeadingLevels = <<1, 2, 3>>
    /\ metrics.heading_structure_score = Milli(1)

C9_WitnessLateH1 ==
    /\ pc = "evaluated"
    /\ HeadingLevels = <<2, 1, 2>>
    /\ metrics.heading_structure_score = Milli(1)

\* the skips of a level sequence: every heading after the first whose level
\* exceeds the level of the heading right before it by more than one
ExpectedSkips(levels) ==
    LET pairs == [i \in 1..(Len(levels) - 1) |-> <<levels[i], levels[i + 1]>>]
        flagged == SelectSeq(pairs, LAMBDA p : p[2] > p[1] + 1)
    IN  [k \in 1..Len(flagged) |->
            Issue("Skipped heading level", flagged[k][1], flagged[k][2])]

ReportedSkips ==
    SelectSeq(metrics.details.heading_hierarchy_issues,
              LAMBDA x : x.kind = "Skipped heading level")

\* C10: a skipped-level issue is recorded for a heading exactly when its level
\* exceeds previous_level + 1 and previous_level > 0, previous_level being the
\* level of the heading before it whether or not that one was flagged: the
\* first heading and a decrease are never flagged, H1,H3,H4 yields one skip,
\* and "# T", "### Skip" yields exactly one issue with score 0.8.
C10_SkippedLevels ==
    Returned =>
        LET levels == HeadingLevels
        IN  /\ ReportedSkips = ExpectedSkips(levels)
            /\ levels = <<1, 3, 4>> => Len(ReportedSkips) = 1
            /\ levels = <<1, 3>> =>
                  /\ metrics.details.heading_hierarchy_issues =
                        <<Issue("Skipped heading level", 1, 3)>>
                  /\ metrics.heading_structure_score = 800

C10_Witness ==
    /\ pc = "evaluated"
    /\ HeadingLevels = <<1, 3, 4>>
    /\ ReportedSkips = <<Issue("Skipped heading level", 1, 3)>>

C10_WitnessOneSkip ==
    /\ pc = "evaluated"
    /\ HeadingLevels = <<1, 3>>
    /\ metrics.heading_structure_score = 800

\* no line of the markdown starts with '#'
NoHeadingLines ==
    \A i \in 1..Len(article.markdown_content) :
        article.markdown_content[i] = "#" =>
            ~(i = 1 \/ article.markdown_content[i - 1] = "\n")

\* C11: when the markdown contains no heading lines, check_heading_hierarchy
\* returns exactly the one-element list "No headings found" (no "Missing H1"
\* on top of it) and evaluate_heading_structure returns 0.8.
C11_NoHeadingsFound ==
    (Returned /\ NoHeadingLines) =>
        /\ metrics.details.heading_hierarchy_issues = <<Issue("No headings found", 0, 0)>>
        /\ metrics.heading_structure_score = 800

C11_Witness ==
    /\ pc = "evaluated"
    /\ article.markdown_content = Chars("Skip this.\nSkip this.")
    /\ metrics.details.heading_hierarchy_issues = <<Issue("No headings found", 0, 0)>>
    /\ metrics.heading_structure_score = 800

C11_WitnessEmpty ==
    /\ pc = "evaluated"
    /\ article.markdown_content = <<>>
    /\ Len(metrics.details.heading_hierarchy_issues) = 1

H1Kinds == {"Missing H1", "Multiple H1 tags"}

\* the issues about the number of H1 headings, as reported
ReportedH1Issues ==
    SelectSeq(metrics.details.heading_hierarchy_issues, LAMBDA x : x.kind \in H1Kinds)

\* how many of the levels are 1
CountH1(levels) == Cardinality({i \in 1..Len(levels) : levels[i] = 1})

\* C12: when at least one heading is present, zero H1 headings give exactly
\* one "Missing H1" issue, n > 1 H1 headings give exactly one issue that
\* reports the count n, exactly one H1 gives no H1 issue, and the H1 issue
\* stands before every skipped-level issue.
C12_ExactlyOneH1 ==
    Returned =>
        LET levels == HeadingLevels
            issues == metrics.details.heading_hierarchy_issues
        IN  levels # <<>> =>
                /\ CountH1(levels) = 0 => ReportedH1Issues = <<Issue("Missing H1", 0, 0)>>
                /\ CountH1(levels) > 1 =>
                      ReportedH1Issues = <<Issue("Multiple H1 tags", CountH1(levels), 0)>>
                /\ CountH1(levels) = 1 => ReportedH1Issues = <<>>
                /\ \A i, j \in 1..Len(issues) :
                      (issues[i].kind \in H1Kinds /\ issues[j].kind = "Skipped heading level")
                          => i < j
                /\ \A i \in 1..Len(issues) : issues[i].kind # "No headings found"

C12_Witness ==
    /\ pc = "evaluated"
    /\ HeadingLevels = <<1, 1, 3>>
    /\ metrics.details.heading_hierarchy_issues =
          <<Issue("Multiple H1 tags", 2, 0), Issue("Skipped heading level", 1, 3)>>

C12_WitnessMissing ==
    /\ pc = "evaluated"
    /\ HeadingLevels = <<2, 4>>
    /\ metrics.details.heading_hierarchy_issues =
          <<Issue("Missing H1", 0, 0), Issue("Skipped heading level", 2, 4)>>

C12_WitnessThree ==
    /\ pc = "evaluated"
    /\ HeadingLevels = <<1, 1, 1>>
    /\ ReportedH1Issues = <<Issue("Multiple H1 tags", 3, 0)>>

(***************************************************************************)
(* Documents with many heading issues                                      *)
(***************************************************************************)
MaxIssueLines == 12

\* m lines that take a and b in turn
Alternation(a, b, m) == JoinLines([i \in 1..m |-> IF i % 2 = 1 THEN a ELSE b])

IssuePatterns == {<<Chars("# T"), Chars("### B")>>, <<Chars("## A"), Chars("#### C")>>,
                  <<Chars("# T"), Chars("## A")>>, <<Chars("### B"), Chars("# T")>>}

IssueDocs == {Alternation(p[1], p[2], m) : p \in IssuePatterns, m \in 0..MaxIssueLines}

InitIssues ==
    /\ \E text \in IssueDocs : article = WithText(EmptyShell, text, Len(Words(text)))
    /\ target_word_count = 10
    /\ primary_keyword = Keyword
    /\ generation_time = Milli(45)
    /\ collaborator = GoodStore
    /\ Fresh

SpecIssues == InitIssues /\ [][Next]_vars

IssueCount == Len(metrics.details.heading_hierarchy_issues)

\* n issues, whatever they are about
SomeIssues(n) == [i \in 1..n |-> Issue("Skipped heading level", 1, 3)]

\* C13: the heading-structure score depends on the issue count n only: 1.0
\* when n = 0, otherwise max(0, 1.0 - 0.2 n); it does not increase with n, is
\* 0 at n = 5 and for every n > 5, and always lies in [0, 1].
C13_HeadingScoreOfCount ==
    /\ Returned =>
          /\ metrics.heading_structure_score =
                (IF IssueCount = 0 THEN Milli(1) ELSE Max(0, Milli(1) - 200 * IssueCount))
          /\ metrics.heading_structure_score = HeadingScore(SomeIssues(IssueCount))
          /\ IssueCount >= 5 => metrics.heading_structure_score = 0
          /\ metrics.heading_structure_score \in 0..Milli(1)
    /\ \A n \in 0..MaxIssueLines :
          /\ HeadingScore(SomeIssues(n + 1)) <= HeadingScore(SomeIssues(n))
          /\ HeadingScore(SomeIssues(n)) = 0 <=> n >= 5

C13_Witness ==
    /\ pc = "evaluated"
    /\ IssueCount = 5
    /\ metrics.heading_structure_score = 0

C13_WitnessBeyond ==
    /\ pc = "evaluated"
    /\ IssueCount = 7
    /\ metrics.heading_structure_score = 0

C13_WitnessFour ==
    /\ pc = "evaluated"
    /\ IssueCount = 4
    /\ metrics.heading_structure_score = 200

(***************************************************************************)
(* Articles for the SEO checklist                                          *)
(***************************************************************************)
\* meta descriptions: none, and ones of a given length with and without the keyword
MetaDescriptions ==
    {<<>>}
        \cup {Chars("All about the KIT ") \o Rep("m", n - 18) : n \in {119, 120, 160, 161}}
        \cup {Rep("m", n) : n \in {119, 120, 145, 160}}

SeoArticles ==
    {[FullShell EXCEPT !.title = t, !.meta_description = m, !.introduction = i,
                       !.conclusion = c,
                       !.markdown_content = Chars("# Kit\nKit is fine."),
                       !.total_word_count = 5] :
        t \in {Chars("Kit guide"), Chars("Guide"), Chars("A sKITtle")},
        m \in MetaDescriptions,
        i \in {Chars("The kit."), Chars("K it.")},
        c \in {Chars("So the KIT works."), Chars("So it works.")}}

InitSeo ==
    /\ article \in SeoArticles
    /\ target_word_count = 5
    /\ primary_keyword \in {Chars("kit"), Chars("Kit")}
    /\ generation_time = Milli(45)
    /\ collaborator = GoodStore
    /\ Fresh

SpecSeo == InitSeo /\ [][Next]_vars

\* sub occurs in text when letter case is ignored
ContainsIgnoringCase(text, sub) ==
    \E i \in 1..(Len(text) - Len(sub) + 1) :
        \A j \in 1..Len(sub) : LowerChar(text[i + j - 1]) = LowerChar(sub[j])

\* the six checks as the checklist is described
SixChecks ==
    <<ContainsIgnoringCase(article.title, primary_keyword),
      ContainsIgnoringCase(article.meta_description, primary_keyword),
      ContainsIgnoringCase(article.introduction, primary_keyword),
      ContainsIgnoringCase(article.conclusion, primary_keyword),
      Len(article.meta_description) > 0,
      Len(article.meta_description) \in 120..160>>

PassedChecks == Cardinality({i \in 1..6 : SixChecks[i]})

\* C14: the SEO score is the fraction of the six checklist entries that are
\* true (keyword in title, meta description, introduction and conclusion by
\* case-insensitive containment; meta description non-empty; its length within
\* 120..160 inclusive, so 120 and 160 pass and 119 and 161 fail); it lies in
\* [0, 1] and is 1.0 only when all six checks pass.
C14_SeoScore ==
    Returned =>
        /\ metrics.details.seo_checklist =
              [keyword_in_title           |-> SixChecks[1],
               keyword_in_meta            |-> SixChecks[2],
               keyword_in_intro           |-> SixChecks[3],
               keyword_in_conclusion      |-> SixChecks[4],
               has_meta_description       |-> SixChecks[5],
               meta_description_length_ok |-> SixChecks[6]]
        /\ metrics.seo_requirements_score = Milli(PassedChecks) \div 6
        /\ metrics.seo_requirements_score \in 0..Milli(1)
        /\ metrics.seo_requirements_score = Milli(1) <=> PassedChecks = 6
        /\ Len(article.meta_description) \in {120, 160} =>
              metrics.details.seo_checklist.meta_description_length_ok
        /\ Len(article.meta_description) \in {119, 161} =>
              ~metrics.details.seo_checklist.meta_description_length_ok

C14_Witness ==
    /\ pc = "evaluated"
    /\ Len(article.meta_description) = 160
    /\ primary_keyword = Chars("Kit")
    /\ metrics.seo_requirements_score = Milli(1)

C14_WitnessTooLong ==
    /\ pc = "evaluated"
    /\ Len(article.meta_description) = 161
    /\ PassedChecks = 5
    /\ metrics.seo_requirements_score = 833

C14_WitnessNone ==
    /\ pc = "evaluated"
    /\ article.meta_description = <<>>
    /\ metrics.seo_requirements_score = 0

(***************************************************************************)
(* Texts for the readability score                                         *)
(***************************************************************************)
\* nothing but markers or punctuation, short words, long words, a link
ReadabilityLines == {Chars(""), Chars("..."), Chars("***"), Chars("## _"),
                     Chars("A b c."), Chars("Ability ability."),
                     Chars("Kit is fine. the kit!"), Chars("[Kit](http://a.b) is.")}

InitReadability ==
    /\ \E text \in Docs(ReadabilityLines, MaxLines) :
          article = WithText(EmptyShell, text, Len(Words(text)))
    /\ target_word_count = 10
    /\ primary_keyword = Keyword
    /\ generation_time = Milli(45)
    /\ collaborator = GoodStore
    /\ Fresh

SpecReadability == InitReadability /\ [][Next]_vars

\* the text once headings marks, link targets and emphasis markers are removed
CleanText == DropEmphasis(Unlink(DropHeadingMarks(article.markdown_content)))

SyllablesIn(words) == SumSeq([i \in 1..Len(words) |-> _count_syllables(words[i])])

\* 206.835 - 1.015 x (words / sentences) - 84.6 x (syllables / words), in thousandths
RawReadability(s, w, syl) ==
    (206835 * s * w - 1015 * w * w - 84600 * syl * s) \div (s * w)

C15_WitnessBelow ==
    /\ pc = "evaluated"
    /\ article.markdown_content = Chars("Ability ability.")
    /\ RawReadability(1, 2, 8) < 0
    /\ metrics.readability_score = 0

C15_WitnessMarkers ==
    /\ pc = "evaluated"
    /\ article.markdown_content = Chars("***\n## _")
    /\ CleanText # article.markdown_content
    /\ metrics.readability_score = 0

C15_WitnessBetween ==
    /\ pc = "evaluated"
    /\ metrics.readability_score \in 1..(Milli(100) - 1)

(***************************************************************************)
(* Articles for the quality score                                          *)
(***************************************************************************)
\* one paragraph of n words: seven one-word sentences and one long sentence
Paragraph(n) ==
    JoinWords([i \in 1..n |-> IF i <= 7 THEN Chars("Go.")
                              ELSE IF i = 8 THEN Chars("Kit")
                              ELSE IF i = n THEN Chars("end.")
                              ELSE Chars("so")])

QualityLines == {Chars(""), Chars("Go."), Chars("kit  kit."), Chars("go on. Stop it! Why?"),
                 Chars("# Kit")}

\* ten one-word sentences in one block that starts with '#'
HeadedSentences ==
    JoinWords([i \in 1..10 |-> IF i = 1 THEN Chars("#Go.") ELSE Chars("Go.")])

QualityTexts ==
    Docs(QualityLines, MaxLines) \cup {Paragraph(50), Paragraph(310), HeadedSentences}

\* the shell with every section of the given word count
WithSections(shell, words) ==
    [shell EXCEPT !.sections = [i \in 1..3 |->
                                   [heading |-> Chars("Use"), level |-> 2,
                                    content |-> Chars("Kit is fine."), word_count |-> words]]]

QualityShells == {EmptyShell, FullShell, WithSections(FullShell, 0),
                  WithSections(EmptyShell, 150)}

InitQuality ==
    /\ \E shell \in QualityShells, text \in QualityTexts :
          article = WithText(shell, text, Len(Words(text)))
    /\ target_word_count = 10
    /\ primary_keyword = Keyword
    /\ generation_time = Milli(45)
    /\ collaborator = GoodStore
    /\ Fresh

SpecQuality == InitQuality /\ [][Next]_vars

\* the five sub-scores of the article, in the order they are added
SubScores ==
    <<StructureScore(article),
      DepthScore(article).val,
      VarietyScore(WordsIn(Sentences(article.markdown_content))),
      ParagraphScore(Len(Paragraphs(article.markdown_content)),
                     SumSeq(WordsIn(Paragraphs(article.markdown_content)))).val,
      GrammarScore(article.markdown_content, Sentences(article.markdown_content))>>

NonNegativeSections ==
    \A i \in 1..Len(article.sections) : article.sections[i].word_count >= 0

C16_WitnessGrammarOnly ==
    /\ pc = "evaluated"
    /\ article.markdown_content = HeadedSentences
    /\ SubScores[5] = 20010
    /\ metrics.content_quality_score = 20010

C16_WitnessLongParagraph ==
    /\ pc = "evaluated"
    /\ article.markdown_content = Paragraph(310)
    /\ SubScores[4] = 0

(***************************************************************************)
(* The end-to-end article                                                  *)
(***************************************************************************)
\* five and six short sentences, and as many long-worded clauses, each
\* holding the keyword as often
PlainFive == Chars("The kit is good. A kit is neat. My kit is new. Our kit is big. The kit is red.")
PlainSix == PlainFive \o Chars(" Get a kit.")
DenseFive == Chars("kit ability kit ability kit ability kit ability kit ability.")
DenseSix == Chars("kit ") \o DenseFive

\* a single H1, then two H2 sections
EndToEndText(first, second) ==
    Chars("# Kit guide\n\n## Use\n\n") \o first \o Chars("\n\n## Care\n\n") \o second

EndToEndTexts == {EndToEndText(a, b) : a \in {PlainFive, DenseFive}, b \in {PlainSix, DenseSix}}

EndToEndArticles ==
    {[FullShell EXCEPT !.meta_description = m, !.introduction = i,
                       !.markdown_content = text, !.total_word_count = 1000] :
        m \in {Chars("All about the kit ") \o Rep("m", 127), Rep("m", 145)},
        i \in {Chars("The kit ") \o Rep("i", 50), Chars("Kit ") \o Rep("i", 50)},
        text \in EndToEndTexts}

InitEndToEnd ==
    /\ article \in EndToEndArticles
    /\ target_word_count = 1000
    /\ primary_keyword = Keyword
    /\ generation_time = Milli(45)
    /\ collaborator \in Collaborators
    /\ Fresh

SpecEndToEnd == InitEndToEnd /\ [][Next]_vars

Times(text) == Cardinality(Occurrences(text, primary_keyword))

\* the article and the arguments of the scenario
EndToEndScenario ==
    /\ article.title # <<>> /\ article.introduction # <<>> /\ article.conclusion # <<>>
    /\ article.call_to_action # <<>>
    /\ Len(article.meta_description) = 145
    /\ Len(article.sections) = 3
    /\ article.total_word_count = 1000
    /\ Times(article.title) = 1 /\ Times(article.introduction) = 1
    /\ Times(article.conclusion) = 1
    /\ Times(article.markdown_content) = 12
    /\ HeadingLevels # <<>> /\ HeadingLevels[1] = 1
    /\ \A i \in 2..Len(HeadingLevels) : HeadingLevels[i] = 2
    /\ generation_time = Milli(45)
    /\ target_word_count = 1000

\* what the scenario is said to yield
EndToEndOutcome ==
    /\ metrics.heading_structure_score = Milli(1)
    /\ metrics.seo_requirements_score = Milli(1)
    /\ metrics.keyword_density = 1200
    /\ metrics.word_count_accuracy = Milli(100)
    /\ (/\ pc = "gated"
        /\ metrics.content_quality_score >= Milli(70)
        /\ metrics.brand_voice_similarity >= 800
        /\ metrics.readability_score >= Milli(60)) => gate = <<TRUE, <<>>>>

C17_WitnessReadabilityFails ==
    /\ pc = "gated"
    /\ EndToEndScenario
    /\ ContainsIgnoringCase(article.meta_description, primary_keyword)
    /\ metrics.seo_requirements_score = Milli(1)
    /\ metrics.readability_score < Milli(60)
    /\ ~gate[1]

C17_WitnessNoKeywordInMeta ==
    /\ pc = "gated"
    /\ EndToEndScenario
    /\ metrics.seo_requirements_score = 833
    /\ metrics.brand_voice_similarity = 850
    /\ gate[2] = <<Failure("SEO requirements", Format(833, 1), "< 1.0")>>

(***************************************************************************)
(* Several evaluate_article calls on one evaluator                         *)
(*                                                                         *)
(* Each call has a frame of its own: its arguments, the locals it has      *)
(* assigned, and the statement it stands at.  The evaluator object holds   *)
(* config and db_manager, which __init__ assigns and no method assigns     *)
(* again; the store answers a query from its arguments alone.              *)
(***************************************************************************)
MaxCalls == 2

Threads == 1..MaxCalls

\* the locals evaluate_article assigns, in the order of its statements
Statements == <<"quality_score", "brand_voice_sim", "keyword_density", "readability",
                "word_count_acc", "heading_score", "seo_score", "details">>

NoLocals == [name \in {} |-> 0]

\* the frame of a call that has not run a statement yet
Entered(art, target, keyword, gen_time) ==
    [article |-> art, target_word_count |-> target, primary_keyword |-> keyword,
     generation_time |-> gen_time, at |-> 1, locals |-> NoLocals, result |-> <<>>]

ArgumentOfFirstCall(t, name) == calls[1][name]

\* an argument of call t, as the statements of that call read it
Argument(t, name) == calls[t][name]

\* the value the statement that assigns `name` computes in call t
Value(t, name) ==
    CASE name = "quality_score" -> _calculate_quality_score(Argument(t, "article"))
      [] name = "brand_voice_sim" ->
            _calculate_brand_voice_similarity(Argument(t, "article"), collaborator)
      [] name = "keyword_density" ->
            _calculate_keyword_density(Argument(t, "article"), Argument(t, "primary_keyword"))
      [] name = "readability" -> _calculate_readability(Argument(t, "article"))
      [] name = "word_count_acc" ->
            _calculate_word_count_accuracy(Argument(t, "article"),
                                           Argument(t, "target_word_count"))
      [] name = "heading_score" -> _evaluate_heading_structure(Argument(t, "article"))
      [] name = "seo_score" ->
            _evaluate_seo_requirements(Argument(t, "article"), Argument(t, "primary_keyword"))
      [] name = "details" ->
            [actual_word_count        |-> Argument(t, "article").total_word_count,
             target_word_count        |-> Argument(t, "target_word_count"),
             keyword_occurrences      |->
                 _count_keyword_occurrences(Argument(t, "article"),
                                            Argument(t, "primary_keyword")),
             heading_hierarchy_issues |-> _check_heading_hierarchy(Argument(t, "article")),
             seo_checklist            |->
                 _get_seo_checklist(Argument(t, "article"), Argument(t, "primary_keyword"))]

\* call t runs the statement it stands at
Compute(t) ==
    /\ calls[t].at \in 1..Len(Statements)
    /\ calls' = [calls EXCEPT
                    ![t].locals = (Statements[calls[t].at] :> Value(t, Statements[calls[t].at]))
                                      @@ calls[t].locals,
                    ![t].at = calls[t].at + 1]
    /\ UNCHANGED <<article, target_word_count, primary_keyword, generation_time,
                   collaborator, metrics, gate, pc, lookup,
                   report, logger_vars, api_vars, counted>>

\* call t returns the record built from its locals
Return(t) ==
    /\ calls[t].at = Len(Statements) + 1
    /\ calls' = [calls EXCEPT
                    ![t].result =
                        <<Record(calls[t].locals.quality_score, calls[t].locals.brand_voice_sim,
                                 calls[t].locals.keyword_density, calls[t].locals.readability,
                                 calls[t].locals.word_count_acc,
                                 Argument(t, "generation_time"),
                                 calls[t].locals.heading_score, calls[t].locals.seo_score,
                                 calls[t].locals.details)>>,
                    ![t].at = calls[t].at + 1]
    /\ UNCHANGED <<article, target_word_count, primary_keyword, generation_time,
                   collaborator, metrics, gate, pc, lookup,
                   report, logger_vars, api_vars, counted>>

NextConcurrent == \E t \in Threads : Compute(t) \/ Return(t)

ConcurrentArticles ==
    {WithText(FullShell, Chars("# Kit\nKit is fine."), 5),
     WithText(EmptyShell, Chars("## A\n\nthe kit! The kit?"), 6),
     WithText(EmptyShell, Chars(""), 0)}

\* two stores that answer a query the same way every time
SafeStores == {GoodStore, Store("ok", "ok", "present", "raises", <<"voice-1">>)}

InitConcurrent ==
    /\ calls \in [Threads -> {Entered(a, 5, k, Milli(45)) :
                                a \in ConcurrentArticles, k \in {Chars("kit")}}]
    /\ collaborator \in SafeStores
    /\ article = NoArticle
    /\ target_word_count = 0
    /\ primary_keyword = <<>>
    /\ generation_time = 0
    /\ metrics = NoMetrics
    /\ gate = NoGate
    /\ pc = "start"
    /\ lookup = NoLookup
    /\ OnlyEvaluator

SpecConcurrent == InitConcurrent /\ [][NextConcurrent]_vars

\* what call t returns when it runs alone
Alone(t) ==
    evaluate_article(calls[t].article, calls[t].target_word_count, calls[t].primary_keyword,
                     calls[t].generation_time, collaborator)

\* C18: concurrent evaluate_article calls on one evaluator are independent:
\* under every interleaving each call returns the scores and details it
\* returns when run alone, a step of one call leaves the frames of the others
\* as they are, and no step writes the state the calls share.
C18_CallsIndependent ==
    /\ [](\A t \in Threads : calls[t].result # <<>> => calls[t].result[1] = Alone(t))
    /\ [][/\ collaborator' = collaborator
          /\ \A t \in Threads :
                calls'[t] # calls[t] => \A u \in Threads \ {t} : calls'[u] = calls[u]]_vars

C18_Witness ==
    /\ calls[1].result # <<>> /\ calls[2].result # <<>>
    /\ calls[1].article # calls[2].article
    /\ calls[1].result[1].val.keyword_density # calls[2].result[1].val.keyword_density

C18_WitnessMidway ==
    /\ calls[1].at = 4 /\ calls[2].at = 6
    /\ calls[1].article # calls[2].article
    /\ calls[2].locals.quality_score # calls[1].locals.quality_score

(***************************************************************************)
(* VectorStoreHybrid.query called on its own                               *)
(***************************************************************************)
\* query(collection_name, query_text, k) returns or raises
Query ==
    /\ pc = "start"
    /\ lookup.outcome = <<>>
    /\ lookup' = [lookup EXCEPT !.outcome = <<query(collaborator, lookup.query_text, lookup.k)>>]
    /\ pc' = "queried"
    /\ UNCHANGED <<article, target_word_count, primary_keyword, generation_time,
                   collaborator, metrics, gate, calls,
                   report, logger_vars, api_vars, counted>>

NextQuery == Query

QueryTexts == {Chars(""), Chars("  "), Chars("kit"), Chars("The kit is fine.")}

InitQuery ==
    /\ lookup \in [query_text : QueryTexts, k : {0, 1, 5}, outcome : {<<>>}]
    /\ collaborator \in Collaborators
    /\ article = NoArticle
    /\ target_word_count = 0
    /\ primary_keyword = <<>>
    /\ generation_time = 0
    /\ metrics = NoMetrics
    /\ gate = NoGate
    /\ pc = "start"
    /\ calls = NoCalls
    /\ OnlyEvaluator

SpecQuery == InitQuery /\ [][NextQuery]_vars

\* the collection is absent, or listing the collections or the search fails
QueryCannotAnswer ==
    \/ collaborator.listing = "raises"
    \/ collaborator.collection = "absent"
    \/ collaborator.search = "raises"

\* C19: query(collection_name, query_text, k) returns an empty sequence and
\* never raises when the collection is absent or when the query fails,
\* including when listing the available collections fails.
C19_QueryNeverRaises ==
    (pc = "queried" /\ lookup.k > 0 /\ QueryCannotAnswer) => lookup.outcome = <<Ok(<<>>)>>

(***************************************************************************)
(* Stores whose neighbours differ in closeness                             *)
(***************************************************************************)
MaxNeighbours == 2

\* a brand-voice example and how close it is to the query, in thousandths
Neighbour(closeness) == [page_content |-> "voice", closeness |-> closeness]

NeighbourLists ==
    UNION {[1..n -> {Neighbour(300), Neighbour(850), Neighbour(950)}] : n \in 0..MaxNeighbours}

InitBrandVoice ==
    /\ \E text \in {Chars(""), Chars("Kit is fine."), Chars("# Kit\nthe kit!")} :
          article = WithText(EmptyShell, text, Len(Words(text)))
    /\ target_word_count = 10
    /\ primary_keyword = Keyword
    /\ generation_time = Milli(45)
    /\ collaborator \in {Store("ok", "ok", "present", "ok", ns) : ns \in NeighbourLists}
    /\ Fresh

SpecBrandVoice == InitBrandVoice /\ [][Next]_vars

\* what the query of the evaluation returns
Returned5 == query(collaborator, Excerpt(Words(article.markdown_content)), 5)

Closeness(results) == {results[i].closeness : i \in 1..Len(results)}

\* C20: when the similarity query returns a non-empty result, the brand-voice
\* similarity is an aggregate of the returned neighbours and not a fixed
\* constant: it lies between the closeness of the farthest and of the nearest
\* neighbour returned, so neighbour sets of differing closeness can give
\* different values.
C20_SimilarityFromNeighbours ==
    (Returned /\ Returned5.ok /\ Returned5.val # <<>>) =>
        /\ \E c \in Closeness(Returned5.val) : c <= metrics.brand_voice_similarity
        /\ \E c \in Closeness(Returned5.val) : metrics.brand_voice_similarity <= c

DetailKeys == {"actual_word_count", "target_word_count", "keyword_occurrences",
               "heading_hierarchy_issues", "seo_checklist"}

\* C21: evaluate_article only reads its inputs: the Article (sections and
\* markdown_content included) and the evaluator's own fields are the same
\* after the call, the record's generation_time is the value passed in, and
\* details holds exactly the five keys, with actual and target word count equal
\* to article.total_word_count and the target passed in.
C21_OnlyReadsInputs ==
    /\ [](Returned =>
            /\ metrics.generation_time = generation_time
            /\ DOMAIN metrics.details = DetailKeys
            /\ metrics.details.actual_word_count = article.total_word_count
            /\ metrics.details.target_word_count = target_word_count)
    /\ [][/\ article' = article
          /\ collaborator' = collaborator
          /\ <<target_word_count, primary_keyword, generation_time>>' =
                <<target_word_count, primary_keyword, generation_time>>]_vars

C21_Witness ==
    /\ pc = "evaluated"
    /\ Len(article.sections) = 3
    /\ article.markdown_content = Chars("# Kit\nKit is fine. the kit!")
    /\ collaborator = GoodStore
    /\ metrics.generation_time = Milli(45)
    /\ metrics.details.actual_word_count = 7
    /\ metrics.details.target_word_count = 10

(***************************************************************************)
(* Articles for the structure-completeness part                            *)
(***************************************************************************)
\* n sections without words
EmptySections(n) ==
    [i \in 1..n |-> [heading |-> Chars("Use"), level |-> 2, content |-> <<>>, word_count |-> 0]]

\* articles without text whose parts are as long as the bounds, or one off
StructureArticles ==
    {[NoArticle EXCEPT !.introduction = Rep("i", i), !.sections = EmptySections(s),
                       !.conclusion = Rep("c", c), !.call_to_action = Rep("b", b)] :
        i \in {0, 50, 51}, s \in 0..3, c \in {50, 51}, b \in {0, 20, 21}}

InitStructure ==
    /\ article \in StructureArticles
    /\ target_word_count = 0
    /\ primary_keyword = Keyword
    /\ generation_time = Milli(45)
    /\ collaborator = GoodStore
    /\ Fresh

SpecStructure == InitStructure /\ [][Next]_vars

\* how many of the four conditions the article meets
StructureConditionsMet ==
    Cardinality({n \in 1..4 :
        \/ n = 1 /\ Len(article.introduction) \in 51..Len(article.introduction)
        \/ n = 2 /\ Len(article.sections) \in 2..Len(article.sections)
        \/ n = 3 /\ Len(article.conclusion) \in 51..Len(article.conclusion)
        \/ n = 4 /\ Len(article.call_to_action) \in 21..Len(article.call_to_action)})

\* the score of an article without text and section words, less the structure part
ScoreWithoutStructure == 6670

\* C22: the structure-completeness part is 5 points for each of four
\* conditions: introduction longer than 50 characters (50 earns nothing), at
\* least 2 sections (2 earns points), conclusion longer than 50 characters,
\* call-to-action longer than 20 characters (20 earns nothing); it is always
\* one of 0, 5, 10, 15, 20.
C22_StructureCompleteness ==
    Returned =>
        /\ StructureScore(article) = Milli(5) * StructureConditionsMet
        /\ StructureScore(article) \in {0, Milli(5), Milli(10), Milli(15), Milli(20)}
        /\ metrics.content_quality_score = StructureScore(article) + ScoreWithoutStructure
        /\ metrics.content_quality_score - ScoreWithoutStructure = Milli(5) * StructureConditionsMet

C22_Witness ==
    /\ pc = "evaluated"
    /\ Len(article.introduction) = 50 /\ Len(article.sections) = 2
    /\ Len(article.conclusion) = 51 /\ Len(article.call_to_action) = 20
    /\ metrics.content_quality_score = Milli(10) + ScoreWithoutStructure

C22_WitnessAll ==
    /\ pc = "evaluated"
    /\ Len(article.introduction) = 51 /\ Len(article.sections) = 2
    /\ Len(article.conclusion) = 51 /\ Len(article.call_to_action) = 21
    /\ metrics.content_quality_score = Milli(20) + ScoreWithoutStructure

C22_WitnessNone ==
    /\ pc = "evaluated"
    /\ Len(article.introduction) = 50 /\ Len(article.sections) = 1
    /\ Len(article.conclusion) = 50 /\ Len(article.call_to_action) = 20
    /\ metrics.content_quality_score = ScoreWithoutStructure

(***************************************************************************)
(* Texts for the grammar and punctuation part                              *)
(***************************************************************************)
\* n sentences of one word, each closed with `mark` except, when `closed`
\* is false, the last one; `sep` stands between a mark and the next sentence
GrammarText(n, word, mark, closed, sep) ==
    JoinRange([i \in 1..n |-> word \o (IF i < n \/ closed THEN mark ELSE <<>>)], sep, 1, n)

GrammarTexts ==
    {GrammarText(n, word, mark, closed, sep) :
        n \in 0..6, word \in {Chars("Go"), Chars("go")},
        mark \in {Chars("."), Chars("!"), Chars("?!")},
        closed \in BOOLEAN, sep \in {Chars(" "), Chars("  ")}}

InitGrammar ==
    /\ \E text \in GrammarTexts : article = WithText(EmptyShell, text, Len(Words(text)))
    /\ target_word_count = 10
    /\ primary_keyword = Keyword
    /\ generation_time = Milli(45)
    /\ collaborator = GoodStore
    /\ Fresh

SpecGrammar == InitGrammar /\ [][Next]_vars

\* text.count('.') + text.count('!') + text.count('?')
TerminalMarks == Cardinality({i \in 1..Len(article.markdown_content) : article.markdown_content[i] \in Terminators})

\* the grammar part when the punctuation heuristic is satisfied
GrammarWithPunctuation(sentences) ==
    (B2I(Cardinality({i \in 1..Min(10, Len(sentences)) : IsUpper(sentences[i][1])}) >= 8)
        + 1 + B2I(~Contains(article.markdown_content, <<" ", " ">>))) * 6670

\* C23: the punctuation heuristic of the grammar part is satisfied whenever
\* the count of '.', '!' and '?' in the document is at least 80% of the
\* number of sentences, also when it is exactly 80% of it (4 marks for 5
\* sentences): the grammar part then holds the 6.67 points of the heuristic.
C23_PunctuationAtLeastEightyPercent ==
    (Returned /\ 10 * TerminalMarks >= 8 * Len(Sentences(article.markdown_content))) =>
        /\ SubScores[5] = GrammarWithPunctuation(Sentences(article.markdown_content))
        /\ metrics.content_quality_score
             = Min(Milli(100), SubScores[1] + SubScores[2] + SubScores[3] + SubScores[4]
                                  + GrammarWithPunctuation(Sentences(article.markdown_content)))

(***************************************************************************)
(* Texts for the paragraph part                                            *)
(***************************************************************************)
\* a block of n words without a terminal mark
PlainBlock(n) == JoinWords([i \in 1..n |-> Chars("so")])

BlockWords == {1, 49, 50, 100, 150, 151, 299, 300, 301}

\* '\n\n'.join(blocks)
JoinBlocks(blocks) == JoinRange(blocks, Chars("\n\n"), 1, Len(blocks))

ParagraphTexts ==
    {JoinBlocks(<<PlainBlock(a)>>) : a \in BlockWords}
        \cup {JoinBlocks(<<Chars("# Kit"), PlainBlock(a)>>) : a \in BlockWords}
        \cup {JoinBlocks(<<PlainBlock(a), PlainBlock(b)>>) : a \in {1, 49, 150, 299}, b \in BlockWords}
        \cup {Chars(""), Chars("# Kit"), JoinBlocks(<<Chars("# Kit"), Chars("#so so")>>)}

InitParagraph ==
    /\ \E text \in ParagraphTexts : article = WithText(EmptyShell, text, Len(Words(text)))
    /\ target_word_count = 10
    /\ primary_keyword = Keyword
    /\ generation_time = Milli(45)
    /\ collaborator = GoodStore
    /\ Fresh

SpecParagraph == InitParagraph /\ [][Next]_vars

\* the score of a text without a terminal mark, less the paragraph part
ScoreWithoutParagraphs == ScoreWithoutStructure

\* the paragraph part of the returned score
ParagraphPart == metrics.content_quality_score - ScoreWithoutParagraphs

\* the stated paragraph part for np paragraphs that hold w words together,
\* in thousandths: avg = w / np
StatedParagraphPart(np, w) ==
    IF np = 0 THEN 0
    ELSE IF 50 * np <= w /\ w <= 150 * np THEN Milli(20)
    ELSE Max(0, Milli(20) - ((100 * Abs(w - 100 * np) + np - 1) \div np))

\* C24: the paragraph part, over the blank-line-separated blocks that do not
\* start with '#', is 20 when the average words per paragraph is in
\* [50, 150], else max(0, 20 - |avg - 100| / 10); it is in [0, 20], is 0
\* when the average is 300 or more, and nothing when there is no such block.
C24_ParagraphStructure ==
    Returned =>
        /\ ParagraphPart = StatedParagraphPart(Len(Paragraphs(article.markdown_content)),
                                               SumSeq(WordsIn(Paragraphs(article.markdown_content))))
        /\ ParagraphPart \in 0..Milli(20)
        /\ (/\ Paragraphs(article.markdown_content) # <<>>
            /\ SumSeq(WordsIn(Paragraphs(article.markdown_content)))
                 >= 300 * Len(Paragraphs(article.markdown_content))) => ParagraphPart = 0
        /\ Paragraphs(article.markdown_content) = <<>> => ParagraphPart = 0

C24_Witness ==
    /\ pc = "evaluated"
    /\ article.markdown_content = JoinBlocks(<<PlainBlock(49), PlainBlock(151)>>)
    /\ ParagraphPart = Milli(20)

C24_WitnessLow ==
    /\ pc = "evaluated"
    /\ article.markdown_content = PlainBlock(50)
    /\ ParagraphPart = Milli(20)

C24_WitnessBelow ==
    /\ pc = "evaluated"
    /\ article.markdown_content = PlainBlock(49)
    /\ ParagraphPart = 14900

C24_WitnessHigh ==
    /\ pc = "evaluated"
    /\ article.markdown_content = JoinBlocks(<<Chars("# Kit"), PlainBlock(150)>>)
    /\ ParagraphPart = Milli(20)

C24_WitnessAbove ==
    /\ pc = "evaluated"
    /\ article.markdown_content = JoinBlocks(<<PlainBlock(150), PlainBlock(151)>>)
    /\ ParagraphPart = 14950

C24_WitnessAlmostZero ==
    /\ pc = "evaluated"
    /\ article.markdown_content = PlainBlock(299)
    /\ ParagraphPart = 100

C24_WitnessZero ==
    /\ pc = "evaluated"
    /\ article.markdown_content = JoinBlocks(<<PlainBlock(299), PlainBlock(301)>>)
    /\ ParagraphPart = 0

C24_WitnessNoParagraph ==
    /\ pc = "evaluated"
    /\ article.markdown_content = JoinBlocks(<<Chars("# Kit"), Chars("#so so")>>)
    /\ ParagraphPart = 0

(***************************************************************************)
(* Documents with deep heading lines                                       *)
(***************************************************************************)
\* heading lines of levels 1, 2 and 6, a line of seven '#', a bare '#' and text
DeepHeadingLines == {Chars("# T"), Chars("## A"), Chars("###### F"), Chars("####### G"),
                     Chars("#"), Chars("Skip this.")}

InitDeepHeading ==
    /\ \E text \in Docs(DeepHeadingLines, MaxLines) :
          article = WithText(EmptyShell, text, Len(Words(text)))
    /\ target_word_count = 10
    /\ primary_keyword = Keyword
    /\ generation_time = Milli(45)
    /\ collaborator = GoodStore
    /\ Fresh

SpecDeepHeading == InitDeepHeading /\ [][Next]_vars

\* where the lines start that consist of '#' characters, a space and text
HashLineStarts(text) ==
    SelectSeq(Indices(text),
              LAMBDA i : /\ text[i] = "#" /\ (i = 1 \/ text[i - 1] = "\n")
                         /\ i + RunLen(text, i, {"#"}) + 1 <= Len(text)
                         /\ text[i + RunLen(text, i, {"#"})] = " "
                         /\ text[i + RunLen(text, i, {"#"}) + 1] \notin Whitespace)

\* the level of each such line, in document order
HashLineLevels(text, starts) ==
    [k \in 1..Len(starts) |-> [level |-> RunLen(text, starts[k], {"#"})]]

\* C25: heading extraction records every line that consists of one or more
\* leading '#', a space and text, with the number of '#' as its level, for
\* any number of '#' (more than six too), in document order; the issues and
\* the score of the record are those of the headings so recorded.
C25_EveryHashLineRecorded ==
    Returned =>
        /\ HeadingLevels
             = [k \in 1..Len(HashLineStarts(article.markdown_content)) |->
                   RunLen(article.markdown_content, HashLineStarts(article.markdown_content)[k], {"#"})]
        /\ metrics.details.heading_hierarchy_issues
             = IssuesOf(HashLineLevels(article.markdown_content,
                                       HashLineStarts(article.markdown_content)))

\* C26: every record returned by evaluate_article is consistent with its
\* details: the heading score is 1.0 exactly when the list of heading issues
\* is empty, the SEO score is 1.0 exactly when every entry of the checklist
\* is true, and the keyword density is keyword_occurrences /
\* actual_word_count x 100, 0.0 when actual_word_count is 0.
C26_RecordConsistent ==
    Returned =>
        /\ metrics.heading_structure_score = Milli(1)
             <=> metrics.details.heading_hierarchy_issues = <<>>
        /\ metrics.seo_requirements_score = Milli(1)
             <=> \A k \in DOMAIN metrics.details.seo_checklist : metrics.details.seo_checklist[k]
        /\ metrics.details.actual_word_count = 0 => metrics.keyword_density = 0
        /\ metrics.details.actual_word_count # 0 =>
             metrics.keyword_density
               = (metrics.details.keyword_occurrences * Milli(100))
                     \div metrics.details.actual_word_count

C26_Witness ==
    /\ pc = "evaluated"
    /\ metrics.heading_structure_score = Milli(1)
    /\ metrics.seo_requirements_score = Milli(1)
    /\ metrics.details.keyword_occurrences = 3
    /\ metrics.details.actual_word_count = 7
    /\ metrics.keyword_density = 42857

C26_WitnessNoWords ==
    /\ pc = "evaluated"
    /\ metrics.heading_structure_score = 800
    /\ metrics.seo_requirements_score = 0
    /\ metrics.details.keyword_occurrences = 2
    /\ metrics.details.actual_word_count = 0
    /\ metrics.keyword_density = 0

(***************************************************************************)
(* print_metrics_report                                                    *)
(***************************************************************************)
\* one tuple of metrics_data; a threshold of None has given = FALSE
Metric(name, value, given, threshold, digits) ==
    [name |-> name, value |-> value, given |-> given, threshold |-> threshold, digits |-> digits]

metrics_data(m) ==
    <<Metric("Content Quality Score", m.content_quality_score, TRUE, Milli(70), 1),
      Metric("Brand Voice Similarity", m.brand_voice_similarity, TRUE, 800, 2),
      Metric("Keyword Density", m.keyword_density, FALSE, 0, 2),
      Metric("Readability Score", m.readability_score, TRUE, Milli(60), 1),
      Metric("Word Count Accuracy", m.word_count_accuracy, TRUE, Milli(90), 1),
      Metric("Generation Time", m.generation_time, TRUE, Milli(300), 1),
      Metric("Heading Structure", m.heading_structure_score, TRUE, Milli(1), 2),
      Metric("SEO Requirements", m.seo_requirements_score, TRUE, Milli(1), 2)>>

\* `threshold and value >= threshold`, then `elif threshold`, then else
StatusByThreshold(row) ==
    IF row.given /\ row.threshold # 0 /\ row.value >= row.threshold THEN "pass"
    ELSE IF row.given /\ row.threshold # 0 THEN "fail"
    ELSE "info"

\* the mark printed in front of a metric
StatusOf(row) ==
    IF row.name \in {"Brand Voice Similarity", "Heading Structure", "SEO Requirements"}
    THEN StatusByThreshold(row)
    ELSE IF row.name = "Keyword Density"
    THEN (IF Milli(1) <= row.value /\ row.value <= Milli(2) THEN "pass" ELSE "fail")
    ELSE IF row.name = "Generation Time"
    THEN (IF row.value < row.threshold THEN "pass" ELSE "fail")
    ELSE IF row.name = "Word Count Accuracy"
    THEN (IF row.value >= row.threshold THEN "pass" ELSE "fail")
    ELSE StatusByThreshold(row)

\* the lines under METRIC SCORES: mark, name and formatted value
ScoreLines(rows) ==
    [i \in 1..Len(rows) |->
        [status |-> StatusOf(rows[i]), name |-> rows[i].name,
         value_str |-> Format(rows[i].value, rows[i].digits)]]

\* what print_metrics_report(m, show_details) prints
print_metrics_report(m, show_details) ==
    [passes   |-> passes_requirements(m)[1],
     failures |-> passes_requirements(m)[2],
     scores   |-> ScoreLines(metrics_data(m)),
     details  |-> show_details /\ DOMAIN m.details # {}]

PrintMetricsReport ==
    /\ pc = "evaluated"
    /\ report = NoReport
    /\ \E show_details \in BOOLEAN : report' = print_metrics_report(metrics, show_details)
    /\ UNCHANGED <<article, target_word_count, primary_keyword, generation_time,
                   collaborator, metrics, gate, pc, calls, lookup, logger_vars, api_vars, counted>>

NextReport == PrintMetricsReport

SpecReport == InitGate /\ [][NextReport]_vars

\* the label passes_requirements gives the failure of the metric of each line
FailureLabel ==
    [i \in 1..8 |-> <<"Quality score", "Brand voice", "Keyword density", "Readability",
                      "Word count accuracy", "Generation time", "Heading structure",
                      "SEO requirements">>[i]]

\* C27: print_metrics_report agrees with the gate: for every record and each
\* of the eight metrics the report marks the metric as passing exactly when
\* passes_requirements() records no failure for it, also on the boundary
\* values (generation_time exactly 300, keyword density exactly 1.0 or 2.0).
C27_ReportAgreesWithGate ==
    report # NoReport =>
        /\ Len(report.scores) = 8
        /\ \A i \in 1..8 :
              report.scores[i].status = "pass"
                <=> ~\E k \in 1..Len(report.failures) : report.failures[k].label = FailureLabel[i]

(***************************************************************************)
(* MetricsLogger.log_metrics                                               *)
(* (src/src/ai_content_factory/core/metrics_logger.py)                     *)
(*                                                                         *)
(* A call is a frame of loggers; the calls share the files of the log      *)
(* directory and nothing orders their statements.  A file opened with mode *)
(* 'w' is empty, and so not valid JSON, until json.dump has written it.    *)
(***************************************************************************)
MaxLogCalls == 2

LogCalls == 1..MaxLogCalls

\* ContentMetrics.to_dict()
to_dict(m) == m

\* records that pass and that fail the gate
LoggedRecords ==
    [content_quality_score   : {69900, 85300},
     brand_voice_similarity  : {850},
     keyword_density         : {1500},
     readability_score       : {72400},
     word_count_accuracy     : {100000},
     generation_time         : {45000},
     heading_structure_score : {1000},
     seo_requirements_score  : {1000},
     details                 : {EmptyDetails}]

\* the frame of a call log_metrics(m, metadata) that has not run a statement
LogEntered(m, metadata) ==
    [at |-> "start", metrics |-> m, metadata |-> metadata, passes |-> FALSE,
     data |-> <<>>, history |-> <<>>]

\* lines 59-65: passes, _ = metrics.passes_requirements(); data = {...}
LogPrepare(t) ==
    /\ loggers[t].at = "start"
    /\ loggers' = [loggers EXCEPT
                      ![t].passes = passes_requirements(loggers[t].metrics)[1],
                      ![t].data = <<[passes_requirements |->
                                        passes_requirements(loggers[t].metrics)[1],
                                     metadata |-> loggers[t].metadata]
                                      @@ to_dict(loggers[t].metrics)>>,
                      ![t].at = "prepared"]
    /\ UNCHANGED <<article, target_word_count, primary_keyword, generation_time,
                   collaborator, metrics, gate, pc, calls, lookup, report,
                   json_log, csv_log, api_vars, counted>>

\* what _log_json holds in `history` after reading the file
ReadHistory(file) == IF file.exists /\ file.valid THEN file.history ELSE <<>>

\* lines 76-86: read the existing history, append the new data
LogRead(t) ==
    /\ loggers[t].at = "prepared"
    /\ loggers' = [loggers EXCEPT
                      ![t].history = ReadHistory(json_log) \o loggers[t].data,
                      ![t].at = "read"]
    /\ UNCHANGED <<article, target_word_count, primary_keyword, generation_time,
                   collaborator, metrics, gate, pc, calls, lookup, report,
                   json_log, csv_log, api_vars, counted>>

\* line 89: open(self.json_log, 'w') leaves an empty file
LogOpen(t) ==
    /\ loggers[t].at = "read"
    /\ json_log' = [exists |-> TRUE, valid |-> FALSE, history |-> <<>>]
    /\ loggers' = [loggers EXCEPT ![t].at = "opened"]
    /\ UNCHANGED <<article, target_word_count, primary_keyword, generation_time,
                   collaborator, metrics, gate, pc, calls, lookup, report,
                   csv_log, api_vars, counted>>

\* line 90: json.dump(history, f, indent=2) and the end of the with block.
\* The file is empty unless another call wrote it since this one opened it;
\* then the text written over it from the start either covers what is there
\* or leaves its tail behind, which is not valid JSON.
LogDump(t) ==
    /\ loggers[t].at = "opened"
    /\ \E covers \in (IF json_log.valid THEN BOOLEAN ELSE {TRUE}) :
          json_log' = [exists |-> TRUE, valid |-> covers,
                       history |-> IF covers THEN loggers[t].history ELSE <<>>]
    /\ loggers' = [loggers EXCEPT ![t].at = "dumped"]
    /\ UNCHANGED <<article, target_word_count, primary_keyword, generation_time,
                   collaborator, metrics, gate, pc, calls, lookup, report,
                   csv_log, api_vars, counted>>

\* the row _log_csv writes
CsvRow(m, passes) ==
    [content_quality_score |-> m.content_quality_score,
     brand_voice_similarity |-> m.brand_voice_similarity,
     keyword_density |-> m.keyword_density,
     readability_score |-> m.readability_score,
     word_count_accuracy |-> m.word_count_accuracy,
     generation_time |-> m.generation_time,
     heading_structure_score |-> m.heading_structure_score,
     seo_requirements_score |-> m.seo_requirements_score,
     passes_requirements |-> passes,
     actual_word_count |-> m.details.actual_word_count,
     target_word_count |-> m.details.target_word_count]

\* line 71: self._log_csv(metrics, passes), then log_metrics returns
LogCsv(t) ==
    /\ loggers[t].at = "dumped"
    /\ csv_log' = Append(csv_log, CsvRow(loggers[t].metrics, loggers[t].passes))
    /\ loggers' = [loggers EXCEPT ![t].at = "done"]
    /\ UNCHANGED <<article, target_word_count, primary_keyword, generation_time,
                   collaborator, metrics, gate, pc, calls, lookup, report,
                   json_log, api_vars, counted>>

NextLogger ==
    \E t \in LogCalls : LogPrepare(t) \/ LogRead(t) \/ LogOpen(t) \/ LogDump(t) \/ LogCsv(t)

\* an entry logged before the calls of the model
OldEntry ==
    [passes_requirements |-> TRUE, metadata |-> [topic |-> 0]]
        @@ to_dict(CHOOSE m \in LoggedRecords : m.content_quality_score = 85300)

\* the JSON history when the calls start: absent, not valid JSON, an empty
\* list, a list of one entry
HistoryFiles ==
    {NoFile,
     [exists |-> TRUE, valid |-> FALSE, history |-> <<>>],
     [exists |-> TRUE, valid |-> TRUE, history |-> <<>>],
     [exists |-> TRUE, valid |-> TRUE, history |-> <<OldEntry>>]}

InitLogger ==
    /\ json_log \in HistoryFiles
    /\ csv_log = <<>>
    /\ \E ms \in [LogCalls -> LoggedRecords] :
          loggers = [t \in LogCalls |-> LogEntered(ms[t], [topic |-> t])]
    /\ article = NoArticle
    /\ target_word_count = 0
    /\ primary_keyword = <<>>
    /\ generation_time = 0
    /\ collaborator = GoodStore
    /\ metrics = NoMetrics
    /\ gate = NoGate
    /\ pc = "start"
    /\ calls = NoCalls
    /\ lookup = NoLookup
    /\ report = NoReport
    /\ clock = 0
    /\ generation_status = <<>>
    /\ tasks = NoTasks
    /\ content_library = <<>>
    /\ counted = NoCount

SpecLogger == InitLogger /\ [][NextLogger]_vars

\* no call of log_metrics is under way
NoLogCallUnderWay == \A t \in LogCalls : loggers[t].at \in {"start", "done"}

LogCompleted == {t \in LogCalls : loggers[t].at = "done"}

\* the entries of the JSON history that call t wrote
EntriesOf(t) ==
    SelectSeq(ReadHistory(json_log), LAMBDA e : e.metadata = loggers[t].metadata)

\* C28: after any sequence of log_metrics calls on one log directory, also
\* when their read-then-rewrite of the JSON history overlap and when the
\* file was not valid JSON, the history holds one entry per completed call,
\* the entries that were there when a call read the file are kept in order
\* before its own, and each entry's passes_requirements is the first
\* component of passes_requirements() of its record.
C28_HistoryKeepsEveryCall ==
    (loggers # <<>> /\ NoLogCallUnderWay) =>
        /\ LogCompleted # {} => json_log.exists /\ json_log.valid
        /\ \A t \in LogCompleted :
              /\ Len(EntriesOf(t)) = 1
              /\ EntriesOf(t)[1].passes_requirements
                   = passes_requirements(loggers[t].metrics)[1]
              /\ Len(loggers[t].history) <= Len(json_log.history)
              /\ SubSeq(json_log.history, 1, Len(loggers[t].history)) = loggers[t].history

(***************************************************************************)
(* The web API's generation tasks (src/src/ai_content_factory/api/app.py)  *)
(*                                                                         *)
(* The handlers and the background tasks are coroutines of one event loop: *)
(* a coroutine keeps the loop from one await to the next, and the only     *)
(* await of generate_content_task is the one of asyncio.to_thread.  The    *)
(* statements between two awaits are steps of their own here, taken while  *)
(* no other coroutine runs, so that every value of the status is a state.  *)
(***************************************************************************)
MaxRequests == 2
MaxClock == 1

\* the status entries the code writes
Queued == [status |-> "queued", progress |-> 0, message |-> "Task queued for generation...", content |-> <<>>]
Processing == [status |-> "processing", progress |-> 10, message |-> "Initializing content generation...", content |-> <<>>]
Failed == [status |-> "error", progress |-> 0, message |-> "Error", content |-> <<>>]
Completed(item) == [status |-> "completed", progress |-> 100, message |-> "Content generated successfully!", content |-> <<item>>]

\* generation_status[task_id]["progress"] = p; ...["message"] = msg
Progress(status, task_id, p, msg) ==
    [status EXCEPT ![task_id].progress = p, ![task_id].message = msg]

\* generation_status[task_id] = entry
Assign(status, task_id, entry) == (task_id :> entry) @@ status

\* the frame of a background task that was added and has not started
Added(task_id) == [task_id |-> task_id, at |-> "added", article |-> NoArticle, metrics |-> NoMetrics]

\* the places of a task between which it does not await
Busy == {"begun", "evaluating", "saving"}

\* the event loop is free for the handler (k = 0) or for task k
LoopFree(k) == \A j \in 1..Len(tasks) : j # k => tasks[j].at \notin Busy

\* what ContentWriterAgent.generate_article hands back
GeneratedArticles ==
    {WithText(FullShell, Chars("# Kit\nKit is fine. the kit!"), 7),
     WithText(EmptyShell, Chars("Go."), 1)}

\* metrics_evaluator.evaluate_article(article, request.word_count,
\* request.target_keyword, generation_time) for each of these articles
EvaluatedArticles ==
    [art \in GeneratedArticles |-> evaluate_article(art, 500, Keyword, Milli(45), GoodStore)]

\* time passes
Tick ==
    /\ clock < MaxClock
    /\ clock' = clock + 1
    /\ UNCHANGED <<article, target_word_count, primary_keyword, generation_time,
                   collaborator, metrics, gate, pc, calls, lookup, report, logger_vars,
                   generation_status, tasks, content_library, counted>>

\* POST /api/content/generate
GenerateContent ==
    /\ Len(tasks) < MaxRequests
    /\ LoopFree(0)
    /\ tasks' = Append(tasks, Added(clock))
    /\ generation_status' = Assign(generation_status, clock, Queued)
    /\ UNCHANGED <<article, target_word_count, primary_keyword, generation_time,
                   collaborator, metrics, gate, pc, calls, lookup, report, logger_vars,
                   clock, content_library, counted>>

\* the except block of generate_content_task
TaskFails(k) ==
    /\ generation_status' = Assign(generation_status, tasks[k].task_id, Failed)
    /\ tasks' = [tasks EXCEPT ![k].at = "failed"]

\* lines 210-214
TaskBegin(k) ==
    /\ k \in 1..Len(tasks)
    /\ tasks[k].at = "added"
    /\ LoopFree(k)
    /\ generation_status' = Assign(generation_status, tasks[k].task_id, Processing)
    /\ tasks' = [tasks EXCEPT ![k].at = "begun"]
    /\ UNCHANGED <<article, target_word_count, primary_keyword, generation_time,
                   collaborator, metrics, gate, pc, calls, lookup, report, logger_vars,
                   clock, content_library, counted>>

\* lines 217-226: initialize_components() if needed, progress 30, and the
\* await of the thread that runs generate_article
TaskInitialize(k) ==
    /\ k \in 1..Len(tasks)
    /\ tasks[k].at = "begun"
    /\ \E outcome \in {"ok", "raises"} :
          IF outcome = "raises" THEN TaskFails(k)
          ELSE /\ generation_status' = Progress(generation_status, tasks[k].task_id, 30,
                                                "Retrieving brand voice context...")
               /\ tasks' = [tasks EXCEPT ![k].at = "awaiting"]
    /\ UNCHANGED <<article, target_word_count, primary_keyword, generation_time,
                   collaborator, metrics, gate, pc, calls, lookup, report, logger_vars,
                   clock, content_library, counted>>

\* lines 226-236: the thread is done, with an article or with an exception
TaskGenerated(k) ==
    /\ k \in 1..Len(tasks)
    /\ tasks[k].at = "awaiting"
    /\ LoopFree(k)
    /\ \/ TaskFails(k)
       \/ \E art \in GeneratedArticles :
             /\ generation_status' = Progress(generation_status, tasks[k].task_id, 70,
                                              "Evaluating content quality...")
             /\ tasks' = [tasks EXCEPT ![k].article = art, ![k].at = "evaluating"]
    /\ UNCHANGED <<article, target_word_count, primary_keyword, generation_time,
                   collaborator, metrics, gate, pc, calls, lookup, report, logger_vars,
                   clock, content_library, counted>>

\* the entry log_metrics appends for the record r of task k
LoggedData(r, k) ==
    [passes_requirements |-> passes_requirements(r)[1], metadata |-> [topic |-> k]] @@ to_dict(r)

\* lines 238-258 once evaluate_article returned r: log_metrics, progress 90
TaskLogs(k, r, logging) ==
    IF ~r.ok \/ logging = "raises"
    THEN TaskFails(k) /\ UNCHANGED <<json_log, csv_log>>
    ELSE /\ json_log' = [exists |-> TRUE, valid |-> TRUE,
                         history |-> Append(ReadHistory(json_log), LoggedData(r.val, k))]
         /\ csv_log' = Append(csv_log, CsvRow(r.val, passes_requirements(r.val)[1]))
         /\ generation_status' = Progress(generation_status, tasks[k].task_id, 90,
                                          "Saving content...")
         /\ tasks' = [tasks EXCEPT ![k].metrics = r.val, ![k].at = "saving"]

\* lines 238-258: evaluate_article, log_metrics, progress 90
TaskEvaluate(k) ==
    /\ k \in 1..Len(tasks)
    /\ tasks[k].at = "evaluating"
    /\ \E logging \in {"ok", "raises"} :
          TaskLogs(k, EvaluatedArticles[tasks[k].article], logging)
    /\ UNCHANGED <<article, target_word_count, primary_keyword, generation_time,
                   collaborator, metrics, gate, pc, calls, lookup, report, loggers,
                   clock, content_library, counted>>

\* lines 261-274
ContentItem(task_id, art, m) ==
    [id |-> task_id, title |-> art.title, status |-> "review", leads |-> 0,
     word_count |-> art.total_word_count, content |-> art.markdown_content,
     meta_description |-> art.meta_description, metrics |-> to_dict(m)]

\* lines 260-290: the item is put in front of the library (an error while
\* the library is saved is logged and not raised), the markdown file is
\* written, the status becomes completed
TaskSave(k) ==
    /\ k \in 1..Len(tasks)
    /\ tasks[k].at = "saving"
    /\ \E saved \in BOOLEAN :
          content_library' =
              IF saved
              THEN <<ContentItem(tasks[k].task_id, tasks[k].article, tasks[k].metrics)>>
                       \o content_library
              ELSE content_library
    /\ \E written \in {"ok", "raises"} :
          IF written = "raises" THEN TaskFails(k)
          ELSE /\ generation_status' =
                     Assign(generation_status, tasks[k].task_id,
                            Completed(ContentItem(tasks[k].task_id, tasks[k].article,
                                                  tasks[k].metrics)))
               /\ tasks' = [tasks EXCEPT ![k].at = "completed"]
    /\ UNCHANGED <<article, target_word_count, primary_keyword, generation_time,
                   collaborator, metrics, gate, pc, calls, lookup, report, logger_vars,
                   clock, counted>>

\* a step of background task k
TaskStep(k) ==
    TaskBegin(k) \/ TaskInitialize(k) \/ TaskGenerated(k) \/ TaskEvaluate(k) \/ TaskSave(k)

NextApi == Tick \/ GenerateContent \/ \E k \in 1..MaxRequests : TaskStep(k)

InitApi ==
    /\ clock = 0
    /\ generation_status = <<>>
    /\ tasks = NoTasks
    /\ content_library = <<>>
    /\ json_log \in {NoFile, [exists |-> TRUE, valid |-> TRUE, history |-> <<OldEntry>>]}
    /\ csv_log = <<>>
    /\ loggers = <<>>
    /\ article = NoArticle
    /\ target_word_count = 0
    /\ primary_keyword = <<>>
    /\ generation_time = 0
    /\ collaborator = GoodStore
    /\ metrics = NoMetrics
    /\ gate = NoGate
    /\ pc = "start"
    /\ calls = NoCalls
    /\ lookup = NoLookup
    /\ report = NoReport
    /\ counted = NoCount

\* the event loop runs every task that can take a step, and the thread of
\* generate_article ends
SpecApi ==
    InitApi /\ [][NextApi]_vars /\ \A k \in 1..MaxRequests : WF_vars(TaskStep(k))

\* the place of a progress value in the order 0, 10, 30, 70, 90, 100
ProgressRank(p) ==
    IF p = 0 THEN 1 ELSE IF p = 10 THEN 2 ELSE IF p = 30 THEN 3 ELSE IF p = 70 THEN 4
    ELSE IF p = 90 THEN 5 ELSE IF p = 100 THEN 6 ELSE 0

\* the place of a status in the lifecycle
LifecycleRank(s) == IF s = "queued" THEN 1 ELSE IF s = "processing" THEN 2 ELSE 3

Settled(entry) == entry.status \in {"completed", "error"}

\* one step of a status entry keeps to the lifecycle
LifecycleStep(old, new) ==
    /\ LifecycleRank(new.status) >= LifecycleRank(old.status)
    /\ new.status # "error" =>
          ProgressRank(new.progress) > 0 /\ ProgressRank(new.progress) >= ProgressRank(old.progress)
    /\ Settled(old) => new = old

\* the k-th request was accepted
Accepted(k) == k <= Len(tasks)

\* the task of the k-th request is completed or in error
TaskSettled(k) == k <= Len(tasks) /\ Settled(generation_status[tasks[k].task_id])

\* C29: every generation task the web API accepted follows the lifecycle
\* queued -> processing -> (completed | error): its status entry exists from
\* the moment the request is accepted, the progress only moves through 0,
\* 10, 30, 70, 90, 100 in that order while the task has not failed, a task
\* that failed has progress 0, a completed task's content item has status
\* "review" and carries the metrics record, a completed or error status is
\* never changed again, and every task eventually is completed or in error.
C29_TaskLifecycle ==
    /\ [](\A k \in 1..Len(tasks) : tasks[k].task_id \in DOMAIN generation_status)
    /\ [](\A id \in DOMAIN generation_status :
            /\ generation_status[id].status = "error" => generation_status[id].progress = 0
            /\ generation_status[id].status = "completed" =>
                  /\ generation_status[id].progress = 100
                  /\ generation_status[id].content[1].status = "review"
                  /\ \E k \in 1..Len(tasks) :
                        /\ tasks[k].task_id = id /\ tasks[k].at = "completed"
                        /\ generation_status[id].content[1].metrics = to_dict(tasks[k].metrics))
    /\ [][\A id \in DOMAIN generation_status :
            LifecycleStep(generation_status[id], generation_status'[id])]_vars
    /\ \A k \in 1..MaxRequests :
          Accepted(k) ~> TaskSettled(k)

(***************************************************************************)
(* _count_syllables on words of its own                                    *)
(***************************************************************************)
MaxWordLen == 3

\* consonants, vowels, an upper-case letter, a mark, a digit and a blank
WordChars == {"t", "h", "e", "a", "y", "E", "!", "1", " "}

SyllableWords == UNION {[1..n -> WordChars] : n \in 0..MaxWordLen}

CountSyllables ==
    /\ counted.at = "called"
    /\ counted' = [counted EXCEPT !.count = _count_syllables(counted.word), !.at = "returned"]
    /\ UNCHANGED <<article, target_word_count, primary_keyword, generation_time,
                   collaborator, metrics, gate, pc, calls, lookup, report, logger_vars,
                   api_vars>>

NextSyllables == CountSyllables

InitSyllables ==
    /\ counted \in [word : SyllableWords, at : {"called"}, count : {0}]
    /\ article = NoArticle
    /\ target_word_count = 0
    /\ primary_keyword = <<>>
    /\ generation_time = 0
    /\ collaborator = GoodStore
    /\ metrics = NoMetrics
    /\ gate = NoGate
    /\ pc = "start"
    /\ calls = NoCalls
    /\ lookup = NoLookup
    /\ report = NoReport
    /\ json_log = NoFile
    /\ csv_log = <<>>
    /\ loggers = <<>>
    /\ clock = 0
    /\ generation_status = <<>>
    /\ tasks = NoTasks
    /\ content_library = <<>>

SpecSyllables == InitSyllables /\ [][NextSyllables]_vars

\* the letters a to z of the lower-cased word
CleanedWord ==
    SelectSeq([i \in 1..Len(counted.word) |->
                  IF counted.word[i] = "E" THEN "e" ELSE counted.word[i]],
              LAMBDA c : c \in {"t", "h", "e", "a", "y"})

\* the number of maximal runs of vowels of a word
VowelRuns(word) ==
    Cardinality({i \in 1..Len(word) :
                    /\ word[i] \in {"a", "e", "i", "o", "u", "y"}
                    /\ (i = 1 \/ word[i - 1] \notin {"a", "e", "i", "o", "u", "y"})})

\* C30: syllable counting on a word, after lower-casing and removing every
\* non a-z character, returns 0 when the cleaned word is empty and otherwise
\* max(1, g - e), g being the number of maximal runs of vowels (a, e, i, o,
\* u, y) and e being 1 if the cleaned word ends in 'e' and else 0; so every
\* non-empty cleaned word counts at least one syllable.
C30_SyllableCount ==
    counted.at = "returned" =>
        /\ CleanedWord = <<>> => counted.count = 0
        /\ CleanedWord # <<>> =>
              /\ counted.count >= 1
              /\ counted.count
                   = Max(1, VowelRuns(CleanedWord)
                              - (IF CleanedWord[Len(CleanedWord)] = "e" THEN 1 ELSE 0))

C30_Witness ==
    /\ counted.at = "returned"
    /\ counted.word = Chars("the")
    /\ counted.count = 1

C30_WitnessOnlyE ==
    /\ counted.at = "returned"
    /\ counted.word = Chars("E")
    /\ counted.count = 1

C30_WitnessEmpty ==
    /\ counted.at = "returned"
    /\ counted.word = Chars(" 1!")
    /\ counted.count = 0

C30_WitnessTwo ==
    /\ counted.at = "returned"
    /\ counted.word = Chars("aha")
    /\ counted.count = 2

====
